---- MODULE Spec2Model ----
(***************************************************************************)
(* Verification model of the Husher / KhDetector real-time pipeline:       *)
(*   RingBuffer<T,Size>   (src/Desktop/Hush/src/RingBuffer.h)              *)
(*   RealtimeThreadPool   (src/Desktop/Hush/src/RealtimeThreadPool.cpp)    *)
(*   MidiEventHandler     (src/Desktop/Hush/src/MidiEventHandler.cpp)      *)
(*   PostProcessor        (src/Desktop/Hush/src/PostProcessor.cpp)         *)
(* Each component has its own specification (SpecRB, SpecPool, ...); the   *)
(* variables of the other components stay at their constructed values.     *)
(***************************************************************************)
EXTENDS Integers, Sequences, FiniteSets, TLC

VARIABLES
    \* ---- RingBuffer ----
    buffer_,        \* std::array<T, Size> buffer_  (slot index 0..Size-1)
    readIndex_,     \* std::atomic<size_t> readIndex_
    writeIndex_,    \* std::atomic<size_t> writeIndex_
    ppc,            \* producer thread: position inside push()
    pCurrentWrite,  \* push(): local currentWrite
    pNextWrite,     \* push(): local nextWrite
    pItem,          \* push(): argument item
    pRet,           \* push(): last return value: "none" (no return yet), "true", "false"
    cpc,            \* consumer thread: position inside pop()
    cCurrentRead,   \* pop(): local currentRead
    cItem,          \* pop(): the out-parameter item
    cRet,           \* pop(): last return value
    pushed,         \* history: values accepted by successful pushes, in order
    popped,         \* history: values returned by successful pops, in order
    pBulk,          \* producer thread: its push_bulk call (arguments, local pushed, return
                    \* value) and, as history, what the call found
    cBulk,          \* consumer thread: its pop_bulk call, likewise
    \* ---- MidiEventHandler ----
    mConfig,              \* Config mConfig (validated)
    mLastHitState,        \* bool mLastHitState
    mNoteIsOn,            \* bool mNoteIsOn
    mNoteOffScheduledAt,  \* int32_t mNoteOffScheduledAt (-1: none)
    mLastEventTimeStamp,  \* uint64_t mLastEventTimeStamp
    mCurrentEvent,        \* MidiEvent mCurrentEvent
    mHasCurrentEvent,     \* bool mHasCurrentEvent
    mStats,               \* Statistics mStats
    midiCall,             \* the last call made on the handler and its return value
    hitStarts,            \* history: false->true transitions of the hit states fed
    hitEnds,              \* history: true->false transitions of the hit states fed
    scheduleRecorded,     \* history: a note-off was scheduled and has not fired since
    samplePos,            \* the caller's current sample position (SpecMidiSeq)
    configGiven,    \* history: the Config last handed to the constructor or updateConfig
    resetFound,     \* history: what the last reset() found: "idle", "sounding", "pending"
    \* ---- PostProcessor ----
    mPPConfig,                \* Config mConfig (validated)
    mConfidenceHistory,       \* std::vector<float> mConfidenceHistory (index 0..size-1)
    mHistoryIndex,            \* int mHistoryIndex
    mHistoryFilled,           \* bool mHistoryFilled
    mCurrentHitState,         \* bool mCurrentHitState
    mHitFrameCount,           \* int mHitFrameCount
    mDebounceFrameCount,      \* int mDebounceFrameCount
    mPeakConfidenceInHit,     \* float mPeakConfidenceInHit
    mLastHitEvent,            \* HitEvent mLastHitEvent
    mHadHit,                  \* std::atomic<bool> mHadHit, read by hasHit()
    mEnabled,                 \* std::atomic<bool> mEnabled
    mLastSmoothedConfidence,  \* std::atomic<float> mLastSmoothedConfidence
    mPPStats,                 \* Statistics mStats
    mConfidenceSum,           \* double mConfidenceSum
    mSmoothedConfidenceSum,   \* double mSmoothedConfidenceSum
    mProcessedCount,          \* uint64_t mProcessedCount
    cbLog,                    \* history: the hitState argument of every callback call
    ppCall,                   \* the last call made on the post-processor and its result
    crossingBegan,            \* history: where the threshold crossing in progress began
    ppLifeCalls,              \* history: calls of reset, updateConfig and setEnabled so far
    processedSamples,         \* history: the clamped samples processed while enabled since
                              \* construction or reset(), the last MaxWindow of them
    sinceResize,              \* history: samples processed while enabled since construction,
                              \* reset() or an updateConfig that changed the filter size
    sinceReset,               \* history: "none" before any reset(), "clean" after one, "changed"
                              \* once updateConfig or setEnabled was called after it
    \* ---- RealtimeThreadPool ----
    mNumThreads,        \* capacity reserved for mWorkerThreads by the constructor
    mCollaborators,     \* mRingBuffer and mAiInference
    poolCall,           \* history: the last call of start() or stop() by the client
    mWorkerThreads,     \* std::vector<std::thread> mWorkerThreads (thread ids)
    mRunning,           \* std::atomic<bool> mRunning
    mShouldStop,        \* std::atomic<bool> mShouldStop
    mTaskQueue,         \* std::queue<Task> mTaskQueue
    mTaskMutex,         \* std::mutex mTaskMutex: its owner, or NoOwner
    waitSet,            \* threads blocked on mTaskCondition
    tpc,                \* each pool thread: position inside its thread function
    joinable,           \* each pool thread: std::thread::joinable()
    wTask,              \* each worker: the local Task task
    clientPc,           \* the client thread: position inside its current call
    clientTask,         \* submitTask(): argument task
    stopPc,             \* each caller of stop(): position inside stop()
    stopIdx,            \* each caller of stop(): position of the join loop
    stopResult,         \* history: how the last stop() of each caller ended
    started,            \* history: the client has started the pool
    stopTaskSubmitted,  \* history: a task that calls stop() was submitted
    submitted,          \* history: number of tasks accepted by submitTask
    executed,           \* history: number of tasks whose execution ended
    \* ---- RealtimeThreadPool, the inference worker ----
    mFrameSize,         \* int mFrameSize
    tProcessingFrame,   \* pop_bulk(): the samples stored into tProcessingFrame so far
    bulkPopped,         \* pop_bulk(): local popped
    mAiStats,           \* Statistics mStats: framesProcessed, droppedFrames
    handedFrames,       \* history: the frames handed to AiInference::run, in order
    lastOutcome,        \* history: how the last call of AiInference::run ended
    handedSinceReset,   \* history: frames handed to run since resetStatistics
    \* ---- RealtimeThreadPool, a thread that submits tasks ----
    subPc,              \* the submitting thread: position inside submitTask()
    subTask,            \* submitTask(): argument task
    subRet,             \* submitTask(): last return value
    subCalls,           \* history: calls of submitTask that passed the test on entry
    subLimit,           \* number of such calls the submitting thread makes in the run
    restarts,           \* history: calls of start() after a stop() that returned
    \* ---- PolyphaseDecimator ----
    inputBuffer_,       \* std::vector<float> inputBuffer_ (index 0..FilterLength-1)
    bufferIndex_,       \* int bufferIndex_
    decOutput,          \* history: the output samples produced since construction/reset
    decConsumed,        \* history: input samples consumed since construction/reset
    decCall,            \* the last call of processMono: its length and return value, and
                        \* (history) whether every length since construction/reset was a
                        \* multiple of DecimationFactor
    \* ---- PostProcessor feeding a MidiEventHandler ----
    feedName,           \* the test sequence chosen for the run
    feed,               \* the confidences of the sequence not fed yet
    hitDriven,          \* the handler was driven with hasHit() since the last frame
    midiLog,            \* history: the MIDI events returned (and sent to the host), in order
    active,             \* KhDetectorProcessor: the plugin is active (setActive)
    procPc,             \* KhDetectorProcessor::process: "idle", or "pending" before the poll
    pushedAtDeactivation \* history: how many samples had been pushed to mDecimatedBuffer
                        \* at the last setActive(false)

rbVars == <<buffer_, readIndex_, writeIndex_, ppc, pCurrentWrite, pNextWrite, pItem,
            pRet, cpc, cCurrentRead, cItem, cRet, pushed, popped, pBulk, cBulk>>

midiVars == <<mConfig, mLastHitState, mNoteIsOn, mNoteOffScheduledAt, mLastEventTimeStamp,
              mCurrentEvent, mHasCurrentEvent, mStats, midiCall, hitStarts, hitEnds,
              scheduleRecorded, samplePos, configGiven, resetFound>>

ppVars == <<mPPConfig, mConfidenceHistory, mHistoryIndex, mHistoryFilled, mCurrentHitState,
            mHitFrameCount, mDebounceFrameCount, mPeakConfidenceInHit, mLastHitEvent,
            mHadHit, mEnabled, mLastSmoothedConfidence, mPPStats, mConfidenceSum,
            mSmoothedConfidenceSum, mProcessedCount, cbLog, ppCall, crossingBegan,
            ppLifeCalls, sinceReset, processedSamples, sinceResize>>

poolVars == <<mNumThreads, mCollaborators, poolCall, mWorkerThreads, mRunning, mShouldStop, mTaskQueue, mTaskMutex,
              waitSet, tpc, joinable, wTask, clientPc, clientTask, stopPc, stopIdx,
              stopResult, started, stopTaskSubmitted, submitted, executed>>

aiVars == <<mFrameSize, tProcessingFrame, bulkPopped, mAiStats, handedFrames,
            lastOutcome, handedSinceReset>>

subVars == <<subPc, subTask, subRet, subCalls, subLimit, restarts>>

decVars == <<inputBuffer_, bufferIndex_, decOutput, decConsumed, decCall>>

pipeVars == <<feedName, feed, hitDriven, midiLog, active, procPc>>

ownerVars == <<pushedAtDeactivation>>

vars == <<rbVars, midiVars, ppVars, poolVars, aiVars, subVars, decVars, pipeVars,
          ownerVars>>

\* What the steps of one component leave alone.
notRB == <<midiVars, ppVars, poolVars, aiVars, subVars, decVars,
            pipeVars, ownerVars>>
notMidi == <<rbVars, ppVars, poolVars, aiVars, subVars, decVars,
              pipeVars, ownerVars>>
notPP == <<rbVars, midiVars, poolVars, aiVars, subVars, decVars,
            pipeVars, ownerVars>>
notPool == <<rbVars, midiVars, ppVars, aiVars, subVars, decVars,
              pipeVars, ownerVars>>

----------------------------------------------------------------------------
(* --------------------------- MidiEventHandler --------------------------- *)

\* Sample positions passed by callers lie in -NegOffsets .. MaxOffset.
NegOffsets == 4
MaxOffset == 3
\* The positive noteOffDelay of the configurations explored (besides 0).
NoteOffDelay == 2
\* Hit-state transitions fed in a run.
MaxTransitions == 5

Offsets == (0 - NegOffsets) .. MaxOffset
NoteOffDelays == {0, NoteOffDelay}
TimeStamps == {0, 1}

\* int32_t addition sampleOffset + noteOffDelay. The positions and delays explored
\* keep the sum far inside the int32 range, where it is the exact sum.
Add32(a, b) == a + b

isValidMidiNote(note) == note <= 127
isValidMidiVelocity(velocity) == velocity <= 127
isValidMidiChannel(channel) == channel <= 15

\* The validation, mutated: the channel is stored as given
ValidatedMidiConfigChannelKept(config) ==
    [config EXCEPT
        !.hitNote = IF isValidMidiNote(@) THEN @ ELSE 45,
        !.hitVelocity = IF isValidMidiVelocity(@) THEN @ ELSE 127]

\* The validation of the constructor and of updateConfig.
ValidatedMidiConfig(config) ==
    [config EXCEPT
        !.hitNote = IF isValidMidiNote(@) THEN @ ELSE 45,
        !.hitVelocity = IF isValidMidiVelocity(@) THEN @ ELSE 127,
        !.channel = IF isValidMidiChannel(@) THEN @ ELSE 0]

\* struct Config with its default member initialisers
DefaultMidiConfig ==
    [hitNote |-> 45, hitVelocity |-> 127, channel |-> 0, sendNoteOff |-> TRUE,
     noteOffDelay |-> 100, useHostTimeStamp |-> TRUE]

\* Configurations handed to the constructor.
MidiConfigs ==
    {[DefaultMidiConfig EXCEPT !.hitNote = n, !.sendNoteOff = s, !.noteOffDelay = d] :
        n \in {45, 200}, s \in BOOLEAN, d \in NoteOffDelays}

\* struct MidiEvent with its default member initialisers (type is not initialised:
\* "none" until an event is created)
DefaultMidiEvent ==
    [type |-> "none", channel |-> 0, note |-> 45, velocity |-> 127,
     sampleOffset |-> 0, hostTimeStamp |-> 0]

NoCall == [op |-> "none", hit |-> FALSE, offset |-> 0, ret |-> "nullptr"]

\* MidiEventHandler(config): members at their initialisers, config validated
MidiConstructedWith(config) ==
    /\ mConfig = ValidatedMidiConfig(config)
    /\ mLastHitState = FALSE
    /\ mNoteIsOn = FALSE
    /\ mNoteOffScheduledAt = -1
    /\ mLastEventTimeStamp = 0
    /\ mCurrentEvent = DefaultMidiEvent
    /\ mHasCurrentEvent = FALSE
    /\ mStats = [noteOnEvents |-> 0, noteOffEvents |-> 0, totalEvents |-> 0,
                 failedEvents |-> 0, lastEventTimeStamp |-> 0]
    /\ midiCall = NoCall
    /\ hitStarts = 0
    /\ hitEnds = 0
    /\ scheduleRecorded = FALSE
    /\ samplePos = 0
    /\ configGiven = config
    /\ resetFound = "none"

MidiConstructed == MidiConstructedWith(DefaultMidiConfig)

InitMidi == \E config \in MidiConfigs : MidiConstructedWith(config)

\* createEvent: the event built from the configuration
createEvent(type, sampleOffset, hostTimeStamp) ==
    [type |-> type, channel |-> mConfig.channel, note |-> mConfig.hitNote,
     velocity |-> IF type = "NoteOn" THEN mConfig.hitVelocity ELSE 0,
     sampleOffset |-> sampleOffset,
     hostTimeStamp |-> IF mConfig.useHostTimeStamp THEN hostTimeStamp ELSE 0]

\* updateStatistics(event), called by createEvent
updateStatistics(event) ==
    [mStats EXCEPT
        !.totalEvents = @ + 1,
        !.lastEventTimeStamp = event.hostTimeStamp,
        !.noteOnEvents = IF event.type = "NoteOn" THEN @ + 1 ELSE @,
        !.noteOffEvents = IF event.type = "NoteOff" THEN @ + 1 ELSE @]

\* mCurrentEvent = createEvent(...): the event, mLastEventTimeStamp and mStats
EmitEvent(type, sampleOffset, hostTimeStamp) ==
    /\ mCurrentEvent' = createEvent(type, sampleOffset, hostTimeStamp)
    /\ mLastEventTimeStamp' = hostTimeStamp
    /\ mStats' = updateStatistics(createEvent(type, sampleOffset, hostTimeStamp))
    /\ mHasCurrentEvent' = TRUE

\* processPendingEvents line 91, mutated: the test for a schedule is inverted
DueSentinelInverted(currentSampleOffset) ==
    mNoteOffScheduledAt < 0 /\ currentSampleOffset >= mNoteOffScheduledAt

\* processPendingEvents line 91: a note-off is scheduled and due
Due(currentSampleOffset) ==
    mNoteOffScheduledAt >= 0 /\ currentSampleOffset >= mNoteOffScheduledAt

\* processHitState line 66, mutated: a zero delay is scheduled too
DelayedNoteOffAlways == mConfig.noteOffDelay >= 0

\* processHitState line 66: the note-off is delayed
DelayedNoteOff == mConfig.noteOffDelay > 0

\* MidiEventHandler::processHitState(hitState, sampleOffset, hostTimeStamp)
processHitState(hitState, sampleOffset, hostTimeStamp) ==
    /\ hitStarts + hitEnds < MaxTransitions
    /\ UNCHANGED <<configGiven, resetFound>>
    /\ hitStarts' = IF hitState /\ ~mLastHitState THEN hitStarts + 1 ELSE hitStarts
    /\ hitEnds' = IF ~hitState /\ mLastHitState THEN hitEnds + 1 ELSE hitEnds
    /\ scheduleRecorded' =
           IF hitState # mLastHitState /\ ~hitState /\ mNoteIsOn
              /\ mConfig.sendNoteOff /\ DelayedNoteOff
              THEN TRUE ELSE scheduleRecorded
    /\ IF hitState = mLastHitState
          THEN \* line 46-48: no change in state
               /\ midiCall' = [op |-> "processHitState", hit |-> hitState,
                               offset |-> sampleOffset, ret |-> "nullptr"]
               /\ UNCHANGED <<mConfig, mLastHitState, mNoteIsOn, mNoteOffScheduledAt,
                              mLastEventTimeStamp, mCurrentEvent, mHasCurrentEvent, mStats>>
          ELSE /\ mLastHitState' = hitState
               /\ mConfig' = mConfig
               /\ IF hitState /\ ~mNoteIsOn
                     THEN \* line 53-61: hit started, note on
                          /\ EmitEvent("NoteOn", sampleOffset, hostTimeStamp)
                          /\ mNoteIsOn' = TRUE
                          /\ UNCHANGED mNoteOffScheduledAt
                     ELSE IF ~hitState /\ mNoteIsOn
                     THEN IF mConfig.sendNoteOff
                          THEN IF DelayedNoteOff
                               THEN \* line 66-69: schedule the note off
                                    /\ mNoteOffScheduledAt' =
                                           Add32(sampleOffset, mConfig.noteOffDelay)
                                    /\ mHasCurrentEvent' = FALSE
                                    /\ UNCHANGED <<mNoteIsOn, mLastEventTimeStamp,
                                                   mCurrentEvent, mStats>>
                               ELSE \* line 70-78: note off immediately
                                    /\ EmitEvent("NoteOff", sampleOffset, hostTimeStamp)
                                    /\ mNoteIsOn' = FALSE
                                    /\ UNCHANGED mNoteOffScheduledAt
                          ELSE \* line 79-82: note off disabled
                               /\ mNoteIsOn' = FALSE
                               /\ mHasCurrentEvent' = FALSE
                               /\ UNCHANGED <<mNoteOffScheduledAt, mLastEventTimeStamp,
                                              mCurrentEvent, mStats>>
                     ELSE \* line 51: neither branch
                          /\ mHasCurrentEvent' = FALSE
                          /\ UNCHANGED <<mNoteIsOn, mNoteOffScheduledAt,
                                         mLastEventTimeStamp, mCurrentEvent, mStats>>
               \* line 85: return mHasCurrentEvent ? &mCurrentEvent : nullptr
               /\ midiCall' = [op |-> "processHitState", hit |-> hitState,
                               offset |-> sampleOffset,
                               ret |-> IF mHasCurrentEvent' THEN "event" ELSE "nullptr"]

\* MidiEventHandler::processPendingEvents(currentSampleOffset)
processPendingEvents(currentSampleOffset) ==
    /\ IF Due(currentSampleOffset)
          THEN /\ EmitEvent("NoteOff", currentSampleOffset, mLastEventTimeStamp)
               /\ mNoteIsOn' = FALSE
               /\ mNoteOffScheduledAt' = -1
               /\ scheduleRecorded' = FALSE
               /\ midiCall' = [op |-> "processPendingEvents", hit |-> FALSE,
                               offset |-> currentSampleOffset, ret |-> "event"]
          ELSE /\ midiCall' = [op |-> "processPendingEvents", hit |-> FALSE,
                               offset |-> currentSampleOffset, ret |-> "nullptr"]
               /\ UNCHANGED <<mNoteIsOn, mNoteOffScheduledAt, mLastEventTimeStamp,
                              mCurrentEvent, mHasCurrentEvent, mStats, scheduleRecorded>>
    /\ UNCHANGED <<mConfig, mLastHitState, hitStarts, hitEnds, configGiven, resetFound>>

\* A caller feeds any hit state at any position with any host timestamp.
HitStateFed ==
    /\ UNCHANGED notMidi
    /\ \E hitState \in BOOLEAN, sampleOffset \in Offsets, hostTimeStamp \in TimeStamps :
           processHitState(hitState, sampleOffset, hostTimeStamp)
    /\ UNCHANGED samplePos

\* A caller polls for pending events at any position.
PendingPolled ==
    /\ UNCHANGED notMidi
    /\ \E currentSampleOffset \in Offsets : processPendingEvents(currentSampleOffset)
    /\ UNCHANGED samplePos

NextMidi == HitStateFed \/ PendingPolled

\* The processor's driver: hit states and polls at the current sample position,
\* which only moves forward (KhDetectorProcessor::process).
HitStateAtPos ==
    /\ UNCHANGED notMidi
    /\ \E hitState \in BOOLEAN, hostTimeStamp \in TimeStamps :
           processHitState(hitState, samplePos, hostTimeStamp)
    /\ UNCHANGED samplePos

PendingPolledAtPos ==
    /\ UNCHANGED notMidi
    /\ processPendingEvents(samplePos)
    /\ UNCHANGED samplePos

SamplePosAdvanced ==
    /\ UNCHANGED notMidi
    /\ samplePos < MaxOffset
    /\ samplePos' = samplePos + 1
    /\ UNCHANGED <<mConfig, mLastHitState, mNoteIsOn, mNoteOffScheduledAt,
                   mLastEventTimeStamp, mCurrentEvent, mHasCurrentEvent, mStats,
                   midiCall, hitStarts, hitEnds, scheduleRecorded, configGiven,
                   resetFound>>

NextMidiSeq == HitStateAtPos \/ PendingPolledAtPos \/ SamplePosAdvanced

\* Construction with sendNoteOff enabled.
InitMidiSeq ==
    \E config \in {c \in MidiConfigs : c.sendNoteOff} : MidiConstructedWith(config)

\* Configurations handed to the constructor and to updateConfig, with fields at
\* and past the end of the valid ranges (the three fields are uint8_t).
MidiConfigInputs ==
    {[hitNote |-> f[1], hitVelocity |-> f[2], channel |-> f[3], sendNoteOff |-> s,
      noteOffDelay |-> NoteOffDelay, useHostTimeStamp |-> TRUE] :
        f \in {<<127, 127, 15>>, <<128, 128, 15>>, <<127, 127, 16>>},
        s \in BOOLEAN}

InitMidiLife == \E config \in MidiConfigInputs : MidiConstructedWith(config)

\* What reset() finds.
HandlerState ==
    IF mNoteOffScheduledAt # -1 THEN "pending"
    ELSE IF mNoteIsOn THEN "sounding" ELSE "idle"

\* reset(), mutated: the schedule is kept
MidiResetKeepsSchedule ==
    /\ UNCHANGED notMidi
    /\ mLastHitState' = FALSE
    /\ mNoteIsOn' = FALSE
    /\ mLastEventTimeStamp' = 0
    /\ mHasCurrentEvent' = FALSE
    /\ resetFound' = HandlerState
    /\ midiCall' = [op |-> "reset", hit |-> FALSE, offset |-> 0, ret |-> "nullptr"]
    /\ UNCHANGED <<mConfig, mCurrentEvent, mStats, hitStarts, hitEnds, samplePos,
                   configGiven, mNoteOffScheduledAt, scheduleRecorded>>

\* MidiEventHandler::reset()
reset ==
    /\ mLastHitState' = FALSE
    /\ mNoteIsOn' = FALSE
    /\ mNoteOffScheduledAt' = -1
    /\ mLastEventTimeStamp' = 0
    /\ mHasCurrentEvent' = FALSE
    /\ scheduleRecorded' = FALSE
    /\ resetFound' = HandlerState
    /\ midiCall' = [op |-> "reset", hit |-> FALSE, offset |-> 0, ret |-> "nullptr"]
    /\ UNCHANGED <<mConfig, mCurrentEvent, mStats, hitStarts, hitEnds, configGiven>>

\* A caller resets the handler.
MidiReset ==
    /\ UNCHANGED notMidi
    /\ reset
    /\ UNCHANGED samplePos

\* MidiEventHandler::updateConfig(config)
MidiConfigUpdated ==
    /\ UNCHANGED notMidi
    /\ \E config \in MidiConfigInputs :
        /\ mConfig' = ValidatedMidiConfig(config)
        /\ configGiven' = config
    /\ midiCall' = [op |-> "updateConfig", hit |-> FALSE, offset |-> 0, ret |-> "nullptr"]
    /\ UNCHANGED <<mLastHitState, mNoteIsOn, mNoteOffScheduledAt, mLastEventTimeStamp,
                   mCurrentEvent, mHasCurrentEvent, mStats, hitStarts, hitEnds,
                   scheduleRecorded, samplePos, resetFound>>

\* Configurations with sendNoteOff enabled.
NoteOffConfigs == {c \in MidiConfigs : c.sendNoteOff}

\* updateConfig(config) with sendNoteOff enabled: the note, the delay or both
\* may change
NoteOffConfigUpdated ==
    /\ UNCHANGED notMidi
    /\ \E config \in NoteOffConfigs :
        /\ mConfig' = ValidatedMidiConfig(config)
        /\ configGiven' = config
    /\ midiCall' = [op |-> "updateConfig", hit |-> FALSE, offset |-> 0, ret |-> "nullptr"]
    /\ UNCHANGED <<mLastHitState, mNoteIsOn, mNoteOffScheduledAt, mLastEventTimeStamp,
                   mCurrentEvent, mHasCurrentEvent, mStats, hitStarts, hitEnds,
                   scheduleRecorded, samplePos, resetFound>>

\* The processor's driver and a caller that reconfigures the handler, sendNoteOff
\* staying enabled; reset is never called.
NextMidiConfigs ==
    \/ HitStateAtPos
    \/ PendingPolledAtPos
    \/ SamplePosAdvanced
    \/ NoteOffConfigUpdated

\* processHitState(currentHit, 0, hostTimeStamp), as KhDetectorProcessor::process
\* calls it, with the host's system time valid
HitStateAtBlockStart ==
    /\ UNCHANGED notMidi
    /\ \E hitState \in BOOLEAN : processHitState(hitState, 0, 1)
    /\ UNCHANGED samplePos

\* A handler driven with hit states, polled at any position, reset and
\* reconfigured at any time.
NextMidiLife ==
    \/ HitStateAtBlockStart
    \/ PendingPolled
    \/ MidiReset
    \/ MidiConfigUpdated


----------------------------------------------------------------------------
(* ----------------------------- PostProcessor ---------------------------- *)
\* Confidences are counted in hundredths: 60 stands for 0.6f. Timestamps
\* (steady_clock) and the two running averages, which are the quotients
\* mConfidenceSum / mProcessedCount and mSmoothedConfidenceSum / mProcessedCount,
\* are not stored.

\* Frames processed in a run.
MaxFrames == 7
\* Largest minHitDuration / maxHitDuration / debounceFrames handed to the constructor.
MaxMinHit == 3
MaxMaxHit == 4
DebounceFrames == 2

\* Raw confidences fed: below every threshold, between hysteresisLow and
\* hysteresisHigh (and at the plain threshold), and above the valid range.
Confidences == {20, 60, 120}

Min(a, b) == IF a < b THEN a ELSE b
Max(a, b) == IF a > b THEN a ELSE b

\* The largest filter size of the configurations used.
MaxWindow == 5

\* The last n elements of a sequence
LastOf(seq, n) == IF Len(seq) <= n THEN seq ELSE SubSeq(seq, Len(seq) - n + 1, Len(seq))

\* size() of a vector indexed from 0
VectorSize(v) == Cardinality(DOMAIN v)

\* std::clamp(x, 0.0f, 1.0f)
clamp01(x) == Max(0, Min(x, 100))

\* The largest and the smallest value of int
IntMax == 2147483647
IntMin == 0 - IntMax - 1

\* What a build can leave in an int for a + 1: the sum, or on signed overflow the
\* wrapped or the saturated value
IncrementedInt(a) == IF a < IntMax THEN {a + 1} ELSE {IntMin, IntMax}

\* PostProcessor::validateConfig, minPlusOne being the value the build gives
\* mConfig.minHitDuration + 1 at line 341
validateConfigWith(config, minPlusOne) ==
    LET size1 == IF config.medianFilterSize < 3 THEN 3 ELSE config.medianFilterSize
        size2 == IF size1 % 2 = 0 THEN size1 + 1 ELSE size1
        threshold == clamp01(config.threshold)
        low1 == clamp01(config.hysteresisLow)
        high1 == clamp01(config.hysteresisHigh)
        low2 == IF config.enableHysteresis /\ low1 > high1 THEN high1 ELSE low1
        high2 == IF config.enableHysteresis /\ low1 > high1 THEN low1 ELSE high1
        unset == config.enableHysteresis /\ low2 = 0 /\ high2 = 0
        minHit == Max(1, config.minHitDuration)
    IN  [medianFilterSize |-> size2,
         threshold |-> threshold,
         hysteresisLow |-> IF unset THEN (threshold * 4) \div 5 ELSE low2,
         hysteresisHigh |-> IF unset THEN threshold ELSE high2,
         enableHysteresis |-> config.enableHysteresis,
         minHitDuration |-> minHit,
         maxHitDuration |-> Max(minPlusOne, config.maxHitDuration),
         enableDebounce |-> config.enableDebounce,
         debounceFrames |-> Max(0, config.debounceFrames)]

\* PostProcessor::validateConfig where minHitDuration + 1 does not overflow
validateConfig(config) ==
    validateConfigWith(config, Max(1, config.minHitDuration) + 1)

\* What validateConfig can leave in mConfig for a configuration
validateConfigOutcomes(config) ==
    {validateConfigWith(config, minPlusOne) :
        minPlusOne \in IncrementedInt(Max(1, config.minHitDuration))}

\* struct Config with the defaults of the header; the hysteresis thresholds are
\* those of the test HysteresisThresholding
DefaultPPConfig ==
    [medianFilterSize |-> 5, threshold |-> 60, hysteresisLow |-> 50,
     hysteresisHigh |-> 70, enableHysteresis |-> FALSE, minHitDuration |-> 3,
     maxHitDuration |-> 100, enableDebounce |-> TRUE, debounceFrames |-> 2]

\* Configurations handed to the constructor.
PPConfigs ==
    {[DefaultPPConfig EXCEPT !.medianFilterSize = f, !.enableHysteresis = h,
                             !.minHitDuration = mn, !.maxHitDuration = mx,
                             !.enableDebounce = d, !.debounceFrames = DebounceFrames] :
        f \in {2, 3}, h \in BOOLEAN, mn \in 0 .. MaxMinHit, mx \in {2, MaxMaxHit},
        d \in BOOLEAN}

\* struct HitEvent, value-initialised
DefaultHitEvent ==
    [peakConfidence |-> 0, smoothedConfidence |-> 0, hitDurationFrames |-> 0,
     isActive |-> FALSE]

NoPPCall == [op |-> "none", confidence |-> 0, ret |-> 0]

\* PostProcessor(config) with the validated configuration stored: history resized
\* and zeroed, members at their initialisers
PPConstructedStoring(stored, call) ==
    /\ ppLifeCalls = 0
    /\ sinceReset = "none"
    /\ processedSamples = <<>>
    /\ sinceResize = 0
    /\ mPPConfig = stored
    /\ mConfidenceHistory = [i \in 0 .. stored.medianFilterSize - 1 |-> 0]
    /\ mHistoryIndex = 0
    /\ mHistoryFilled = FALSE
    /\ mCurrentHitState = FALSE
    /\ mHitFrameCount = 0
    /\ mDebounceFrameCount = 0
    /\ mPeakConfidenceInHit = 0
    /\ mLastHitEvent = DefaultHitEvent
    /\ mHadHit = FALSE
    /\ mEnabled = TRUE
    /\ mLastSmoothedConfidence = 0
    /\ mPPStats = [totalFramesProcessed |-> 0, totalHits |-> 0, falsePositives |-> 0,
                   debouncedHits |-> 0, peakConfidence |-> 0, currentHitDuration |-> 0,
                   isCurrentlyHit |-> FALSE]
    /\ mConfidenceSum = 0
    /\ mSmoothedConfidenceSum = 0
    /\ mProcessedCount = 0
    /\ cbLog = <<>>
    /\ ppCall = call
    /\ crossingBegan = "none"

PPConstructedWith(config) == PPConstructedStoring(validateConfig(config), NoPPCall)

PPConstructed == PPConstructedWith(DefaultPPConfig)

InitPP == \E config \in PPConfigs : PPConstructedWith(config)

\* The k-th smallest (k from 0) of the first n entries of a buffer: what
\* std::nth_element leaves at position k.
nthElement(buf, n, k) ==
    CHOOSE v \in {buf[i] : i \in 0 .. n - 1} :
        /\ Cardinality({i \in 0 .. n - 1 : buf[i] < v}) <= k
        /\ Cardinality({i \in 0 .. n - 1 : buf[i] <= v}) > k

\* PostProcessor::applyMedianFilter, mutated: the whole buffer is sorted also
\* while it is not filled
applyMedianFilterWholeBuffer(history, historyIndex, historyFilled) ==
    LET fsize == mPPConfig.medianFilterSize
    IN  IF ~historyFilled /\ historyIndex < 3
           THEN history[(historyIndex - 1 + fsize) % fsize]
           ELSE nthElement(history, fsize, fsize \div 2)

\* PostProcessor::applyMedianFilter on the history after the new sample was stored
applyMedianFilter(history, historyIndex, historyFilled) ==
    LET fsize == mPPConfig.medianFilterSize
        n == IF historyFilled THEN fsize ELSE historyIndex
    IN  IF ~historyFilled /\ historyIndex < 3
           THEN history[(historyIndex - 1 + fsize) % fsize]
        ELSE IF n % 2 = 1
           THEN nthElement(history, n, n \div 2)
           ELSE (nthElement(history, n, n \div 2)
                 + nthElement(history, n, n \div 2 - 1)) \div 2

\* PostProcessor::applyThreshold, mutated: the high threshold also while in a hit
applyThresholdHighOnly(confidence) ==
    IF mPPConfig.enableHysteresis
       THEN confidence >= mPPConfig.hysteresisHigh
       ELSE confidence >= mPPConfig.threshold

\* PostProcessor::applyThreshold
applyThreshold(confidence) ==
    IF mPPConfig.enableHysteresis
       THEN IF mCurrentHitState
               THEN confidence >= mPPConfig.hysteresisLow
               ELSE confidence >= mPPConfig.hysteresisHigh
       ELSE confidence >= mPPConfig.threshold

\* The hit-detection members updateHitDetection works on, with the callbacks
\* invoked so far.
HitDetection ==
    [hit |-> mCurrentHitState, count |-> mHitFrameCount, debounce |-> mDebounceFrameCount,
     peak |-> mPeakConfidenceInHit, hadHit |-> mHadHit, event |-> mLastHitEvent,
     stats |-> mPPStats, cbs |-> cbLog]

\* PostProcessor::triggerHitStateChange(newState, smoothedConfidence), with a
\* callback installed
triggerHitStateChange(s, newState, smoothedConfidence) ==
    [s EXCEPT
        !.hadHit = newState,
        !.event = IF newState
                     THEN [peakConfidence |-> s.peak,
                           smoothedConfidence |-> smoothedConfidence,
                           hitDurationFrames |-> s.count, isActive |-> TRUE]
                     ELSE [@ EXCEPT !.isActive = FALSE, !.hitDurationFrames = s.count],
        !.stats.totalHits = IF newState THEN @ + 1 ELSE @,
        !.cbs = Append(@, newState)]

\* line 239-240: currentHitDuration and isCurrentlyHit
HitStatsStored(s) ==
    [s EXCEPT !.stats.currentHitDuration = IF s.hit THEN s.count ELSE 0,
              !.stats.isCurrentlyHit = s.hit]

\* line 219 / 235: the debounce window entered when a hit ends
DebounceWindow == IF mPPConfig.enableDebounce THEN mPPConfig.debounceFrames ELSE 0

\* line 211, mutated: the hit is announced whatever the frame count
minDurationIgnored(s) == ~s.hadHit

\* line 211: minimum duration reached for the first time
minDurationReached(s) == s.count = mPPConfig.minHitDuration /\ ~s.hadHit

\* line 216, mutated: > in place of >=
maxDurationExceeded(s) == s.count > mPPConfig.maxHitDuration

\* line 216: maximum duration auto-reset
maxDurationReached(s) == s.count >= mPPConfig.maxHitDuration

\* line 224, mutated: every ended episode counts as a valid hit
wasValidHitAlways(s) == s.count >= 0

\* line 224: wasValidHit
wasValidHit(s) == s.count >= mPPConfig.minHitDuration

\* line 196-203: start of a new hit
HitStarted(s, smoothedConfidence) ==
    [s EXCEPT !.hit = TRUE, !.count = 1, !.peak = smoothedConfidence]

\* line 205-220: continue the existing hit
HitContinued(s, smoothedConfidence) ==
    LET s1 == [s EXCEPT !.count = @ + 1, !.peak = Max(@, smoothedConfidence)]
        s2 == IF minDurationReached(s1)
                 THEN triggerHitStateChange(s1, TRUE, smoothedConfidence) ELSE s1
    IN  IF maxDurationReached(s2)
           THEN [triggerHitStateChange(s2, FALSE, smoothedConfidence)
                    EXCEPT !.hit = FALSE, !.debounce = DebounceWindow]
           ELSE s2

\* line 222-236: end of the hit
HitEnded(s, smoothedConfidence) ==
    LET s1 == IF ~wasValidHit(s) THEN [s EXCEPT !.stats.falsePositives = @ + 1] ELSE s
        s2 == IF s1.hadHit
                 THEN triggerHitStateChange(s1, FALSE, smoothedConfidence) ELSE s1
    IN  [s2 EXCEPT !.hit = FALSE, !.debounce = DebounceWindow]

\* PostProcessor::updateHitDetection(smoothedConfidence): the hit-detection
\* members after the call
updateHitDetection(smoothedConfidence) ==
    LET thresholdMet == applyThreshold(smoothedConfidence)
        debouncing == mPPConfig.enableDebounce /\ mDebounceFrameCount > 0
        s0 == IF debouncing
                 THEN [HitDetection EXCEPT !.debounce = @ - 1] ELSE HitDetection
    IN  IF debouncing /\ thresholdMet
           THEN \* line 190-193: counted as debounced, early return
                [s0 EXCEPT !.stats.debouncedHits = @ + 1]
        ELSE IF thresholdMet /\ ~s0.hit
           THEN HitStatsStored(HitStarted(s0, smoothedConfidence))
        ELSE IF thresholdMet /\ s0.hit
           THEN HitStatsStored(HitContinued(s0, smoothedConfidence))
        ELSE IF ~thresholdMet /\ s0.hit
           THEN HitStatsStored(HitEnded(s0, smoothedConfidence))
           ELSE HitStatsStored(s0)

\* Where the run of consecutive threshold-met frames that includes this frame
\* began: inside a debounce window, outside of one, or there is no such run.
CrossingAfter(smoothedConfidence) ==
    IF ~applyThreshold(smoothedConfidence) THEN "none"
    ELSE IF crossingBegan # "none" THEN crossingBegan
    ELSE IF mPPConfig.enableDebounce /\ mDebounceFrameCount > 0 THEN "inWindow"
    ELSE "outside"

\* A disabled processor that clamps what it passes through.
PassThroughClamped(confidence) == clamp01(confidence)

\* line 31: return confidence
PassThrough(confidence) == confidence

\* PostProcessor::processConfidence(confidence)
processConfidence(confidence) ==
    IF ~mEnabled
       THEN \* line 30-32: pass through when disabled
            /\ ppCall' = [op |-> "processConfidence", confidence |-> confidence,
                          ret |-> PassThrough(confidence)]
            /\ UNCHANGED <<mPPConfig, mConfidenceHistory, mHistoryIndex, mHistoryFilled,
                           mCurrentHitState, mHitFrameCount, mDebounceFrameCount,
                           mPeakConfidenceInHit, mLastHitEvent, mHadHit, mEnabled,
                           mLastSmoothedConfidence, mPPStats, mConfidenceSum,
                           mSmoothedConfidenceSum, mProcessedCount, cbLog,
                           crossingBegan, ppLifeCalls, sinceReset,
                           processedSamples, sinceResize>>
       ELSE LET clamped == clamp01(confidence)
                history == [mConfidenceHistory EXCEPT ![mHistoryIndex] = clamped]
                historyIndex == (mHistoryIndex + 1) % mPPConfig.medianFilterSize
                historyFilled == mHistoryFilled \/ historyIndex = 0
                smoothedConfidence == applyMedianFilter(history, historyIndex, historyFilled)
                s == updateHitDetection(smoothedConfidence)
            IN  /\ mConfidenceHistory' = history
                /\ mHistoryIndex' = historyIndex
                /\ mHistoryFilled' = historyFilled
                /\ mLastSmoothedConfidence' = smoothedConfidence
                /\ mCurrentHitState' = s.hit
                /\ mHitFrameCount' = s.count
                /\ mDebounceFrameCount' = s.debounce
                /\ mPeakConfidenceInHit' = s.peak
                /\ mHadHit' = s.hadHit
                /\ mLastHitEvent' = s.event
                /\ cbLog' = s.cbs
                \* line 290-310: updateStatistics
                /\ mProcessedCount' = mProcessedCount + 1
                /\ mConfidenceSum' = mConfidenceSum + clamped
                /\ mSmoothedConfidenceSum' = mSmoothedConfidenceSum + smoothedConfidence
                /\ mPPStats' = [s.stats EXCEPT
                                   !.totalFramesProcessed = @ + 1,
                                   !.peakConfidence = Max(@, clamped)]
                /\ ppCall' = [op |-> "processConfidence", confidence |-> confidence,
                              ret |-> smoothedConfidence]
                /\ crossingBegan' = CrossingAfter(smoothedConfidence)
                /\ processedSamples' = LastOf(Append(processedSamples, clamped), MaxWindow)
                /\ sinceResize' = Min(sinceResize + 1, MaxWindow)
                /\ UNCHANGED <<mPPConfig, mEnabled, ppLifeCalls, sinceReset>>

\* The audio pipeline feeds one confidence value per frame.
ConfidenceProcessed ==
    /\ UNCHANGED notPP
    /\ mPPStats.totalFramesProcessed < MaxFrames
    /\ \E confidence \in Confidences : processConfidence(confidence)

NextPP == ConfidenceProcessed

\* Calls of reset, updateConfig and setEnabled in a run, and frames processed
\* between two of them.
MaxLifeCalls == 2
MaxLifeFrames == 3

\* Configurations handed to the constructor and to updateConfig over the life of
\* a processor: two filter sizes, hits announced at once or after two frames.
PPLifeConfigs ==
    {[DefaultPPConfig EXCEPT !.medianFilterSize = f, !.minHitDuration = mn,
                             !.maxHitDuration = mx] :
        f \in {3, 5}, mn \in {1, 2}, mx \in {2, 4}}

InitPPLife == \E config \in PPLifeConfigs : PPConstructedWith(config)

\* PostProcessor::reset(), with a callback installed
ppReset ==
    /\ mConfidenceHistory' = [i \in DOMAIN mConfidenceHistory |-> 0]
    /\ mHistoryIndex' = 0
    /\ mHistoryFilled' = FALSE
    /\ mCurrentHitState' = FALSE
    /\ mHitFrameCount' = 0
    /\ mDebounceFrameCount' = 0
    /\ mPeakConfidenceInHit' = 0
    /\ mHadHit' = FALSE
    /\ mLastSmoothedConfidence' = 0
    \* line 81-87: the callback if a crossing was in progress
    /\ cbLog' = IF mCurrentHitState THEN Append(cbLog, FALSE) ELSE cbLog
    /\ mPPStats' = [totalFramesProcessed |-> 0, totalHits |-> 0, falsePositives |-> 0,
                    debouncedHits |-> 0, peakConfidence |-> 0, currentHitDuration |-> 0,
                    isCurrentlyHit |-> FALSE]
    /\ mConfidenceSum' = 0
    /\ mSmoothedConfidenceSum' = 0
    /\ mProcessedCount' = 0
    /\ ppCall' = [op |-> "reset", confidence |-> 0, ret |-> 0]
    /\ crossingBegan' = "none"
    /\ sinceReset' = "clean"
    /\ processedSamples' = <<>>
    /\ sinceResize' = 0
    /\ UNCHANGED <<mPPConfig, mLastHitEvent, mEnabled>>

\* PostProcessor::updateConfig(config), stored being the validated configuration
updateConfig(config, stored) ==
    /\ mPPConfig' = stored
    /\ IF VectorSize(mConfidenceHistory) # stored.medianFilterSize
          THEN \* line 115-118: resize keeps the leading elements
               /\ mConfidenceHistory' =
                      [i \in 0 .. stored.medianFilterSize - 1 |->
                          IF i < VectorSize(mConfidenceHistory)
                             THEN mConfidenceHistory[i] ELSE 0]
               /\ mHistoryIndex' = 0
               /\ mHistoryFilled' = FALSE
               /\ sinceResize' = 0
          ELSE UNCHANGED <<mConfidenceHistory, mHistoryIndex, mHistoryFilled, sinceResize>>
    /\ ppCall' = [op |-> "updateConfig", confidence |-> 0, ret |-> 0, config |-> config]
    /\ sinceReset' = IF sinceReset = "none" THEN "none" ELSE "changed"
    /\ UNCHANGED <<mCurrentHitState, mHitFrameCount, mDebounceFrameCount,
                   mPeakConfidenceInHit, mLastHitEvent, mHadHit, mEnabled,
                   mLastSmoothedConfidence, mPPStats, mConfidenceSum,
                   mSmoothedConfidenceSum, mProcessedCount, cbLog, crossingBegan,
                   processedSamples>>

\* A frame of the life of a processor.
LifeFrameProcessed ==
    /\ UNCHANGED notPP
    /\ mPPStats.totalFramesProcessed < MaxLifeFrames
    /\ \E confidence \in Confidences : processConfidence(confidence)

PPReset ==
    /\ UNCHANGED notPP
    /\ ppLifeCalls < MaxLifeCalls
    /\ ppLifeCalls' = ppLifeCalls + 1
    /\ ppReset

PPConfigUpdated ==
    /\ UNCHANGED notPP
    /\ ppLifeCalls < MaxLifeCalls
    /\ ppLifeCalls' = ppLifeCalls + 1
    /\ \E config \in PPLifeConfigs : updateConfig(config, validateConfig(config))

\* setEnabled(enabled)
EnabledSet ==
    /\ UNCHANGED notPP
    /\ ppLifeCalls < MaxLifeCalls
    /\ ppLifeCalls' = ppLifeCalls + 1
    /\ \E enabled \in BOOLEAN : mEnabled' = enabled
    /\ ppCall' = [op |-> "setEnabled", confidence |-> 0, ret |-> 0]
    /\ sinceReset' = IF sinceReset = "none" THEN "none" ELSE "changed"
    /\ UNCHANGED <<mPPConfig, mConfidenceHistory, mHistoryIndex, mHistoryFilled,
                   mCurrentHitState, mHitFrameCount, mDebounceFrameCount,
                   mPeakConfidenceInHit, mLastHitEvent, mHadHit,
                   mLastSmoothedConfidence, mPPStats, mConfidenceSum,
                   mSmoothedConfidenceSum, mProcessedCount, cbLog, crossingBegan,
                   processedSamples, sinceResize>>

NextPPLife == LifeFrameProcessed \/ PPReset \/ PPConfigUpdated \/ EnabledSet

\* processConfidence and setEnabled only.
NextPPEnabling == LifeFrameProcessed \/ EnabledSet

\* processConfidence and reset only: the configuration stays the one validated
\* by the constructor.
NextPPResets == LifeFrameProcessed \/ PPReset

\* Configurations at and beyond the limits validateConfig enforces: filter sizes
\* even and odd, thresholds below, inside and above [0,1], hysteresis thresholds
\* unset, ordered, inverted and out of range, durations from 0 to the largest
\* int, debounce periods negative, zero and positive.
PPConfigInputs ==
    {[medianFilterSize |-> fd[1], threshold |-> t, hysteresisLow |-> lh[1],
      hysteresisHigh |-> lh[2], enableHysteresis |-> h, minHitDuration |-> mn,
      maxHitDuration |-> mx, enableDebounce |-> TRUE, debounceFrames |-> fd[2]] :
        fd \in {<<2, -1>>, <<3, 2>>, <<4, 0>>}, t \in {-10, 60, 150},
        lh \in {<<0, 0>>, <<50, 70>>, <<70, 50>>, <<150, -5>>}, h \in BOOLEAN,
        mn \in {0, 3, IntMax}, mx \in {2, 100}}

\* PostProcessor(config) for any of these configurations
InitPPConfig ==
    \E config \in PPConfigInputs : \E stored \in validateConfigOutcomes(config) :
        PPConstructedStoring(stored, [op |-> "PostProcessor", confidence |-> 0,
                                      ret |-> 0, config |-> config])

\* updateConfig(config) for any of these configurations
AnyConfigUpdated ==
    /\ UNCHANGED notPP
    /\ ppLifeCalls < MaxLifeCalls
    /\ ppLifeCalls' = ppLifeCalls + 1
    /\ \E config \in PPConfigInputs : \E stored \in validateConfigOutcomes(config) :
           updateConfig(config, stored)

\* Frames processed between two resets when the filter window is observed: the
\* window of 3 fills and wraps.
MaxWindowFrames == 4

\* Configurations that differ in the filter size only.
WindowConfigs == {[DefaultPPConfig EXCEPT !.medianFilterSize = f] : f \in {3, MaxWindow}}

InitPPWindow == \E config \in WindowConfigs : PPConstructedWith(config)

WindowFrameProcessed ==
    /\ UNCHANGED notPP
    /\ mPPStats.totalFramesProcessed < MaxWindowFrames
    /\ \E confidence \in Confidences : processConfidence(confidence)

\* updateConfig(config) with the same or another filter size
FilterSizeUpdated ==
    /\ UNCHANGED notPP
    /\ ppLifeCalls < MaxLifeCalls
    /\ ppLifeCalls' = ppLifeCalls + 1
    /\ \E config \in WindowConfigs : updateConfig(config, validateConfig(config))

NextPPWindow == WindowFrameProcessed \/ PPReset \/ FilterSizeUpdated

----------------------------------------------------------------------------
(* -------------------------- RealtimeThreadPool -------------------------- *)

\* Largest thread count the hardware allows (hardware_concurrency() - 1).
NumThreads == 3
\* Tasks the client submits in a run.
MaxTasks == 2
\* static constexpr size_t kMaxQueueSize
kMaxQueueSize == 64
\* The thread that owns the pool and calls start/submitTask/stop (no pool thread).
Client == -1
\* mTaskMutex is free.
NoOwner == -2

\* Thread 0 runs aiProcessingThreadMain, the others run workerThreadMain.
Threads == 0 .. NumThreads - 1
Callers == Threads \cup {Client}
\* A task does some work or calls stop() on its own pool.
Tasks == {"work", "stop"}

\* RealtimeThreadPool(numThreads, ...): numThreads = std::clamp(numThreads, 1, maxThreads)
clampThreads(numThreads) == Max(1, Min(numThreads, NumThreads))

\* getThreadCount(): static_cast<int>(mWorkerThreads.size())
getThreadCount == Len(mWorkerThreads)

\* The collaborators a client has: its ring buffer and its inference engine, or a
\* null pointer, and others handed to a pool that is already running.
NoCollaborators == [ringBuffer |-> "nullptr", aiInference |-> "nullptr"]
ClientCollaborators ==
    [ringBuffer : {"nullptr", "ringBuffer"}, aiInference : {"nullptr", "aiInference"}]
OtherCollaborators ==
    ClientCollaborators \cup {[ringBuffer |-> "other", aiInference |-> "other"]}

\* start(ringBuffer, aiInference, ..) was called: what it found and was given;
\* turn distinguishes a call from the call before it
StartCallMade(collaborators) ==
    [op |-> "start", wasRunning |-> mRunning, given |-> collaborators,
     turn |-> 1 - poolCall.turn]

\* stop() was called
StopCallMade ==
    [op |-> "stop", wasRunning |-> mRunning, given |-> NoCollaborators,
     turn |-> 1 - poolCall.turn]

PoolConstructedWith(numThreads) ==
    /\ mNumThreads = clampThreads(numThreads)
    /\ mCollaborators = NoCollaborators
    /\ poolCall = [op |-> "none", wasRunning |-> FALSE, given |-> NoCollaborators,
                   turn |-> 0]
    /\ mWorkerThreads = <<>>
    /\ mRunning = FALSE
    /\ mShouldStop = FALSE
    /\ mTaskQueue = <<>>
    /\ mTaskMutex = NoOwner
    /\ waitSet = {}
    /\ tpc = [t \in Threads |-> "none"]
    /\ joinable = [t \in Threads |-> FALSE]
    /\ wTask = [t \in Threads |-> "none"]
    /\ clientPc = "idle"
    /\ clientTask = "none"
    /\ stopPc = [c \in Callers |-> "idle"]
    /\ stopIdx = [c \in Callers |-> 1]
    /\ stopResult = [c \in Callers |-> "none"]
    /\ started = FALSE
    /\ stopTaskSubmitted = FALSE
    /\ submitted = 0
    /\ executed = 0

PoolConstructed == PoolConstructedWith(NumThreads)

InitPool == \E numThreads \in 0 .. NumThreads + 1 : PoolConstructedWith(numThreads)

\* start(ringBuffer, aiInference, interval), line 38-71; valid: both collaborators
\* are non-null. The client starts its pool once.
Start ==
    /\ UNCHANGED notPool
    /\ clientPc = "idle" /\ ~started
    /\ \E collaborators \in ClientCollaborators :
        /\ poolCall' = StartCallMade(collaborators)
        /\ IF mRunning \/ collaborators.ringBuffer = "nullptr"
                       \/ collaborators.aiInference = "nullptr"
           THEN UNCHANGED <<mCollaborators, mWorkerThreads, mRunning, mShouldStop, tpc,
                            joinable, started>>
           ELSE /\ mCollaborators' = collaborators
                /\ mRunning' = TRUE
                /\ mShouldStop' = FALSE
                /\ mWorkerThreads' = [i \in 1 .. mNumThreads |-> i - 1]
                /\ tpc' = [t \in Threads |-> IF t < mNumThreads THEN "loop" ELSE tpc[t]]
                /\ joinable' = [t \in Threads |-> t < mNumThreads \/ joinable[t]]
                /\ started' = TRUE
    /\ UNCHANGED <<mNumThreads, mTaskQueue, mTaskMutex, waitSet, wTask, clientPc,
                   clientTask, stopPc, stopIdx, stopResult, stopTaskSubmitted,
                   submitted, executed>>

\* submitTask(task) line 109-111: refused when the pool is not running. At most
\* one submitted task calls stop(), and none once the client has called stop().
SubmitCheck ==
    /\ UNCHANGED notPool
    /\ clientPc = "idle" /\ submitted < MaxTasks
    /\ \E task \in Tasks :
        /\ task = "stop" => ~stopTaskSubmitted /\ stopResult[Client] = "none"
        /\ IF ~mRunning
              THEN UNCHANGED <<clientPc, clientTask, stopTaskSubmitted>>
              ELSE /\ clientPc' = "submitLock"
                   /\ clientTask' = task
                   /\ stopTaskSubmitted' = (stopTaskSubmitted \/ task = "stop")
    /\ UNCHANGED <<mNumThreads, mCollaborators, poolCall, mWorkerThreads, mRunning, mShouldStop, mTaskQueue,
                   mTaskMutex, waitSet, tpc, joinable, wTask, stopPc, stopIdx,
                   stopResult, started, submitted, executed>>

\* submitTask line 113-119: under mTaskMutex, refuse on a full queue or push
SubmitPush ==
    /\ UNCHANGED notPool
    /\ clientPc = "submitLock" /\ mTaskMutex = NoOwner
    /\ IF Len(mTaskQueue) >= kMaxQueueSize
          THEN /\ clientPc' = "idle"
               /\ UNCHANGED <<mTaskQueue, submitted>>
          ELSE /\ mTaskQueue' = Append(mTaskQueue, clientTask)
               /\ submitted' = submitted + 1
               /\ clientPc' = "submitNotify"
    /\ UNCHANGED <<mNumThreads, mCollaborators, poolCall, mWorkerThreads, mRunning, mShouldStop, mTaskMutex,
                   waitSet, tpc, joinable, wTask, clientTask, stopPc, stopIdx,
                   stopResult, started, stopTaskSubmitted, executed>>

\* submitTask line 121-122: mTaskCondition.notify_one() wakes one waiting thread
\* if there is one
SubmitNotify ==
    /\ UNCHANGED notPool
    /\ clientPc = "submitNotify"
    /\ IF waitSet = {}
          THEN UNCHANGED waitSet
          ELSE \E w \in waitSet : waitSet' = waitSet \ {w}
    /\ clientPc' = "idle"
    /\ UNCHANGED <<mNumThreads, mCollaborators, poolCall, mWorkerThreads, mRunning, mShouldStop, mTaskQueue,
                   mTaskMutex, tpc, joinable, wTask, clientTask, stopPc, stopIdx,
                   stopResult, started, stopTaskSubmitted, submitted, executed>>

\* The caller of stop() leaves the call: the client is idle again, a worker is
\* back in the loop of workerThreadMain (line 264-271) with its task finished.
StopLeft(c, result) ==
    /\ stopPc' = [stopPc EXCEPT ![c] = "idle"]
    /\ stopResult' = [stopResult EXCEPT ![c] = result]
    /\ IF c = Client
          THEN /\ clientPc' = "idle"
               /\ UNCHANGED <<tpc, wTask, executed>>
          ELSE /\ tpc' = [tpc EXCEPT ![c] = "loop"]
               /\ wTask' = [wTask EXCEPT ![c] = "none"]
               /\ executed' = executed + 1
               /\ UNCHANGED clientPc

\* stop() line 75-77, called by the client: no-op when the pool is not running
StopCalled ==
    /\ UNCHANGED notPool
    /\ clientPc = "idle" /\ ~stopTaskSubmitted
    /\ poolCall' = StopCallMade
    /\ IF ~mRunning
          THEN UNCHANGED <<clientPc, stopPc>>
          ELSE /\ clientPc' = "stop"
               /\ stopPc' = [stopPc EXCEPT ![Client] = "setShouldStop"]
    /\ UNCHANGED <<mNumThreads, mCollaborators, mWorkerThreads, mRunning, mShouldStop, mTaskQueue,
                   mTaskMutex, waitSet, tpc, joinable, wTask, clientTask, stopIdx,
                   stopResult, started, stopTaskSubmitted, submitted, executed>>

\* stop() line 81: mShouldStop.store(true), no mutex held
StopSetShouldStop(c) ==
    /\ UNCHANGED notPool
    /\ stopPc[c] = "setShouldStop"
    /\ mShouldStop' = TRUE
    /\ stopPc' = [stopPc EXCEPT ![c] = "setRunning"]
    /\ UNCHANGED <<mNumThreads, mCollaborators, poolCall, mWorkerThreads, mRunning, mTaskQueue, mTaskMutex,
                   waitSet, tpc, joinable, wTask, clientPc, clientTask, stopIdx,
                   stopResult, started, stopTaskSubmitted, submitted, executed>>

\* stop() line 82: mRunning.store(false)
StopSetRunning(c) ==
    /\ UNCHANGED notPool
    /\ stopPc[c] = "setRunning"
    /\ mRunning' = FALSE
    /\ stopPc' = [stopPc EXCEPT ![c] = "notify"]
    /\ UNCHANGED <<mNumThreads, mCollaborators, poolCall, mWorkerThreads, mShouldStop, mTaskQueue, mTaskMutex,
                   waitSet, tpc, joinable, wTask, clientPc, clientTask, stopIdx,
                   stopResult, started, stopTaskSubmitted, submitted, executed>>

\* stop() line 85: mTaskCondition.notify_all() wakes the threads that are
\* waiting now
StopNotify(c) ==
    /\ UNCHANGED notPool
    /\ stopPc[c] = "notify"
    /\ waitSet' = {}
    /\ stopPc' = [stopPc EXCEPT ![c] = "join"]
    /\ stopIdx' = [stopIdx EXCEPT ![c] = 1]
    /\ UNCHANGED <<mNumThreads, mCollaborators, poolCall, mWorkerThreads, mRunning, mShouldStop, mTaskQueue,
                   mTaskMutex, tpc, joinable, wTask, clientPc, clientTask,
                   stopResult, started, stopTaskSubmitted, submitted, executed>>

\* stop() line 88-92: the next thread of mWorkerThreads is skipped when not
\* joinable, otherwise join() returns once that thread has finished
StopJoin(c) ==
    /\ UNCHANGED notPool
    /\ stopPc[c] = "join" /\ stopIdx[c] <= Len(mWorkerThreads)
    /\ LET t == mWorkerThreads[stopIdx[c]]
       IN  /\ t # c
           /\ joinable[t] => tpc[t] = "done"
           /\ joinable' = [joinable EXCEPT ![t] = FALSE]
    /\ stopIdx' = [stopIdx EXCEPT ![c] = @ + 1]
    /\ UNCHANGED <<mNumThreads, mCollaborators, poolCall, mWorkerThreads, mRunning, mShouldStop, mTaskQueue,
                   mTaskMutex, waitSet, tpc, wTask, clientPc, clientTask, stopPc,
                   stopResult, started, stopTaskSubmitted, submitted, executed>>

\* stop() line 90 when the thread to join is the calling thread: join() throws
\* std::system_error (resource_deadlock_would_occur). The exception leaves stop()
\* and is caught by workerThreadMain line 267.
StopJoinSelf(c) ==
    /\ UNCHANGED notPool
    /\ stopPc[c] = "join" /\ stopIdx[c] <= Len(mWorkerThreads)
    /\ mWorkerThreads[stopIdx[c]] = c /\ joinable[c]
    /\ StopLeft(c, "threw")
    /\ UNCHANGED <<mNumThreads, mCollaborators, poolCall, mWorkerThreads, mRunning, mShouldStop, mTaskQueue,
                   mTaskMutex, waitSet, joinable, clientTask, stopIdx, started,
                   stopTaskSubmitted, submitted>>

\* stop() line 94: mWorkerThreads.clear() after the last join
StopClearThreads(c) ==
    /\ UNCHANGED notPool
    /\ stopPc[c] = "join" /\ stopIdx[c] > Len(mWorkerThreads)
    /\ mWorkerThreads' = <<>>
    /\ stopPc' = [stopPc EXCEPT ![c] = "clearQueue"]
    /\ UNCHANGED <<mNumThreads, mCollaborators, poolCall, mRunning, mShouldStop, mTaskQueue, mTaskMutex,
                   waitSet, tpc, joinable, wTask, clientPc, clientTask, stopIdx,
                   stopResult, started, stopTaskSubmitted, submitted, executed>>

\* stop() line 97-104: under mTaskMutex the queue is emptied; stop() returns
StopClearQueue(c) ==
    /\ UNCHANGED notPool
    /\ stopPc[c] = "clearQueue" /\ mTaskMutex = NoOwner
    /\ mTaskQueue' = <<>>
    /\ StopLeft(c, "returned")
    /\ UNCHANGED <<mNumThreads, mCollaborators, poolCall, mWorkerThreads, mRunning, mShouldStop, mTaskMutex,
                   waitSet, joinable, clientTask, stopIdx, started,
                   stopTaskSubmitted, submitted>>

\* The steps of a stop() call that has begun.
StopStep(c) ==
    \/ StopSetShouldStop(c)
    \/ StopSetRunning(c)
    \/ StopNotify(c)
    \/ StopJoin(c)
    \/ StopJoinSelf(c)
    \/ StopClearThreads(c)
    \/ StopClearQueue(c)

\* What a step of a pool thread that only moves in its thread function leaves alone.
poolShared == <<mNumThreads, mCollaborators, poolCall, mWorkerThreads, mRunning, mShouldStop, joinable, clientPc,
                clientTask, stopIdx, stopResult, started, stopTaskSubmitted, submitted>>

\* workerThreadMain line 243: while (!mShouldStop.load())
WorkerLoop(w) ==
    /\ UNCHANGED notPool
    /\ w # 0 /\ tpc[w] = "loop"
    /\ tpc' = [tpc EXCEPT ![w] = IF mShouldStop THEN "done" ELSE "lock"]
    /\ UNCHANGED <<poolShared, mTaskQueue, mTaskMutex, waitSet, wTask, stopPc, executed>>

\* line 248: std::unique_lock lock(mTaskMutex)
WorkerLock(w) ==
    /\ UNCHANGED notPool
    /\ w # 0 /\ tpc[w] = "lock" /\ mTaskMutex = NoOwner
    /\ mTaskMutex' = w
    /\ tpc' = [tpc EXCEPT ![w] = "pred"]
    /\ UNCHANGED <<poolShared, mTaskQueue, waitSet, wTask, stopPc, executed>>

\* line 249-251: wait(lock, pred) evaluates the predicate with the mutex held;
\* when it is false the thread goes on to block
WorkerPred(w) ==
    /\ UNCHANGED notPool
    /\ w # 0 /\ tpc[w] = "pred"
    /\ tpc' = [tpc EXCEPT ![w] = IF mShouldStop \/ mTaskQueue # <<>>
                                    THEN "check" ELSE "block"]
    /\ UNCHANGED <<poolShared, mTaskQueue, mTaskMutex, waitSet, wTask, stopPc, executed>>

\* wait(lock): the mutex is released and the thread blocks on mTaskCondition
WorkerBlock(w) ==
    /\ UNCHANGED notPool
    /\ w # 0 /\ tpc[w] = "block"
    /\ mTaskMutex' = NoOwner
    /\ waitSet' = waitSet \cup {w}
    /\ tpc' = [tpc EXCEPT ![w] = "waiting"]
    /\ UNCHANGED <<poolShared, mTaskQueue, wTask, stopPc, executed>>

\* wait(lock): a notified thread takes the mutex again and evaluates the
\* predicate again
WorkerWake(w) ==
    /\ UNCHANGED notPool
    /\ w # 0 /\ tpc[w] = "waiting" /\ w \notin waitSet /\ mTaskMutex = NoOwner
    /\ mTaskMutex' = w
    /\ tpc' = [tpc EXCEPT ![w] = "pred"]
    /\ UNCHANGED <<poolShared, mTaskQueue, waitSet, wTask, stopPc, executed>>

\* wait(lock): a blocked thread may also wake without a notification (a spurious
\* wake-up, which the implementation is allowed but not obliged to produce)
SpuriousWakeup(w) ==
    /\ UNCHANGED notPool
    /\ w # 0 /\ tpc[w] = "waiting" /\ w \in waitSet
    /\ waitSet' = waitSet \ {w}
    /\ UNCHANGED <<poolShared, mTaskQueue, mTaskMutex, tpc, wTask, stopPc, executed>>

\* line 253-261: leave the loop when stopping, otherwise take the front task; the
\* lock is released at the end of the scope
WorkerCheck(w) ==
    /\ UNCHANGED notPool
    /\ w # 0 /\ tpc[w] = "check"
    /\ mTaskMutex' = NoOwner
    /\ IF mShouldStop
          THEN /\ tpc' = [tpc EXCEPT ![w] = "done"]
               /\ UNCHANGED <<mTaskQueue, wTask>>
          ELSE IF mTaskQueue # <<>>
          THEN /\ wTask' = [wTask EXCEPT ![w] = Head(mTaskQueue)]
               /\ mTaskQueue' = Tail(mTaskQueue)
               /\ tpc' = [tpc EXCEPT ![w] = "exec"]
          ELSE /\ tpc' = [tpc EXCEPT ![w] = "loop"]
               /\ UNCHANGED <<mTaskQueue, wTask>>
    /\ UNCHANGED <<poolShared, waitSet, stopPc, executed>>

\* line 264-270: task() for a task that does some work
WorkerExecWork(w) ==
    /\ UNCHANGED notPool
    /\ w # 0 /\ tpc[w] = "exec" /\ wTask[w] = "work"
    /\ tpc' = [tpc EXCEPT ![w] = "loop"]
    /\ wTask' = [wTask EXCEPT ![w] = "none"]
    /\ executed' = executed + 1
    /\ UNCHANGED <<poolShared, mTaskQueue, mTaskMutex, waitSet, stopPc>>

\* line 264-270: task() for a task that calls stop(); stop() line 75-77
WorkerExecStop(w) ==
    /\ UNCHANGED notPool
    /\ w # 0 /\ tpc[w] = "exec" /\ wTask[w] = "stop"
    /\ IF ~mRunning
          THEN /\ tpc' = [tpc EXCEPT ![w] = "loop"]
               /\ wTask' = [wTask EXCEPT ![w] = "none"]
               /\ executed' = executed + 1
               /\ UNCHANGED stopPc
          ELSE /\ tpc' = [tpc EXCEPT ![w] = "inStop"]
               /\ stopPc' = [stopPc EXCEPT ![w] = "setShouldStop"]
               /\ UNCHANGED <<wTask, executed>>
    /\ UNCHANGED <<poolShared, mTaskQueue, mTaskMutex, waitSet>>

\* aiProcessingThreadMain line 288: while (!mShouldStop.load())
AiLoop ==
    /\ UNCHANGED notPool
    /\ tpc[0] = "loop"
    /\ tpc' = [tpc EXCEPT ![0] = IF mShouldStop THEN "done" ELSE "body"]
    /\ UNCHANGED <<poolShared, mTaskQueue, mTaskMutex, waitSet, wTask, stopPc, executed>>

\* aiProcessingThreadMain line 289-318: one pass of the loop body (sleep, or pop
\* and process a frame); it touches neither the task queue nor the flags
AiBody ==
    /\ UNCHANGED notPool
    /\ tpc[0] = "body"
    /\ tpc' = [tpc EXCEPT ![0] = "loop"]
    /\ UNCHANGED <<poolShared, mTaskQueue, mTaskMutex, waitSet, wTask, stopPc, executed>>

\* The steps a pool thread takes by itself.
ThreadStep(t) ==
    \/ WorkerLoop(t)
    \/ WorkerLock(t)
    \/ WorkerPred(t)
    \/ WorkerBlock(t)
    \/ WorkerWake(t)
    \/ WorkerCheck(t)
    \/ WorkerExecWork(t)
    \/ WorkerExecStop(t)
    \/ StopStep(t)

NextPool ==
    \/ Start
    \/ SubmitCheck
    \/ SubmitPush
    \/ SubmitNotify
    \/ StopCalled
    \/ StopStep(Client)
    \/ AiLoop
    \/ AiBody
    \/ \E t \in Threads : ThreadStep(t) \/ SpuriousWakeup(t)

\* The scheduler runs every thread that can take a step, and a call that has
\* begun goes on; no spurious wake-up is ever owed.
FairPool ==
    /\ WF_vars(AiLoop \/ AiBody)
    /\ \A t \in Threads : WF_vars(ThreadStep(t))
    /\ WF_vars(StopStep(Client))
    /\ WF_vars(SubmitPush \/ SubmitNotify)

----------------------------------------------------------------------------
(* ------------------------------ RingBuffer ------------------------------ *)

\* log2 of the template parameter Size (Size must be a power of two).
SizeLog2 == 2
\* Number of values the producer offers in a run (more than Size: wrap-around).
MaxPush == 6
Size == 2 ^ SizeLog2

\* a & (Size - 1) for a >= 0 and Size a power of two keeps the low SizeLog2 bits
MaskSize(a) == a % Size

increment(index) == MaskSize(index + 1)

\* RingBuffer::capacity
capacity == Size - 1

\* RingBuffer::size : (write - read) & (Size - 1) on size_t (modulo 2^64)
size == MaskSize((writeIndex_ - readIndex_) + Size)

\* RingBuffer::empty
empty == readIndex_ = writeIndex_

\* RingBuffer::full
full == increment(writeIndex_) = readIndex_

\* No bulk call was made: pc is the position in the loop, items the pointer
\* given ("null" or "array"), count the count given, done the local
\* pushed/popped, ret the value returned (-1: none yet); found, pushedBefore and
\* poppedBefore are size() and the numbers of pushes and pops when the call began.
NoBulkCall ==
    [pc |-> "idle", items |-> "none", count |-> 0, done |-> 0, ret |-> -1,
     found |-> 0, pushedBefore |-> 0, poppedBefore |-> 0]

\* RingBuffer() : readIndex_(0), writeIndex_(0); buffer_ holds no value yet (0)
InitRB ==
    /\ buffer_ = [i \in 0 .. Size - 1 |-> 0]
    /\ readIndex_ = 0
    /\ writeIndex_ = 0
    /\ ppc = "idle"
    /\ pCurrentWrite = 0
    /\ pNextWrite = 0
    /\ pItem = 0
    /\ pRet = "none"
    /\ cpc = "idle"
    /\ cCurrentRead = 0
    /\ cItem = 0
    /\ cRet = "none"
    /\ pushed = <<>>
    /\ popped = <<>>
    /\ pBulk = NoBulkCall
    /\ cBulk = NoBulkCall

\* push(item) line 52-53: the producer calls push with the next value of its
\* stream (a refused value is offered again, as the producer of the tests does),
\* loads writeIndex_ and computes nextWrite.
PushLoadWrite ==
    /\ UNCHANGED notRB
    /\ UNCHANGED <<pBulk, cBulk>>
    /\ ppc = "idle"
    /\ Len(pushed) < MaxPush
    /\ pItem' = Len(pushed) + 1
    /\ pCurrentWrite' = writeIndex_
    /\ pNextWrite' = increment(writeIndex_)
    /\ ppc' = "check"
    /\ UNCHANGED <<buffer_, readIndex_, writeIndex_, pRet, cpc, cCurrentRead, cItem,
                   cRet, pushed, popped>>

\* push line 55-58, mutated: the full test is missing
PushCheckFullNever ==
    /\ UNCHANGED notRB
    /\ UNCHANGED <<pBulk, cBulk>>
    /\ ppc = "check"
    /\ pRet' = pRet
    /\ ppc' = "store"
    /\ UNCHANGED <<buffer_, readIndex_, writeIndex_, pCurrentWrite, pNextWrite, pItem,
                   cpc, cCurrentRead, cItem, cRet, pushed, popped>>

\* push line 55-58: load readIndex_ (acquire); full -> return false
PushCheckFull ==
    /\ UNCHANGED notRB
    /\ UNCHANGED <<pBulk, cBulk>>
    /\ ppc = "check"
    /\ IF pNextWrite = readIndex_
          THEN /\ pRet' = "false"
               /\ ppc' = "idle"
          ELSE /\ pRet' = pRet
               /\ ppc' = "store"
    /\ UNCHANGED <<buffer_, readIndex_, writeIndex_, pCurrentWrite, pNextWrite, pItem,
                   cpc, cCurrentRead, cItem, cRet, pushed, popped>>

\* push line 60: buffer_[currentWrite] = item
PushStoreItem ==
    /\ UNCHANGED notRB
    /\ UNCHANGED <<pBulk, cBulk>>
    /\ ppc = "store"
    /\ buffer_' = [buffer_ EXCEPT ![pCurrentWrite] = pItem]
    /\ ppc' = "publish"
    /\ UNCHANGED <<readIndex_, writeIndex_, pCurrentWrite, pNextWrite, pItem, pRet,
                   cpc, cCurrentRead, cItem, cRet, pushed, popped>>

\* push line 61-62: writeIndex_.store(nextWrite, release); return true
PushPublish ==
    /\ UNCHANGED notRB
    /\ UNCHANGED <<pBulk, cBulk>>
    /\ ppc = "publish"
    /\ writeIndex_' = pNextWrite
    /\ pRet' = "true"
    /\ pushed' = Append(pushed, pItem)
    /\ ppc' = "idle"
    /\ UNCHANGED <<buffer_, readIndex_, pCurrentWrite, pNextWrite, pItem,
                   cpc, cCurrentRead, cItem, cRet, popped>>

\* pop(item) line 94: load readIndex_
PopLoadRead ==
    /\ UNCHANGED notRB
    /\ UNCHANGED <<pBulk, cBulk>>
    /\ cpc = "idle"
    /\ cCurrentRead' = readIndex_
    /\ cpc' = "check"
    /\ UNCHANGED <<buffer_, readIndex_, writeIndex_, ppc, pCurrentWrite, pNextWrite,
                   pItem, pRet, cItem, cRet, pushed, popped>>

\* pop line 96-99, mutated: the empty test is missing
PopCheckEmptyNever ==
    /\ UNCHANGED notRB
    /\ UNCHANGED <<pBulk, cBulk>>
    /\ cpc = "check"
    /\ cRet' = cRet
    /\ cpc' = "load"
    /\ UNCHANGED <<buffer_, readIndex_, writeIndex_, ppc, pCurrentWrite, pNextWrite,
                   pItem, pRet, cCurrentRead, cItem, pushed, popped>>

\* pop line 96, mutated: the empty test is made against the slot after currentRead
PopCheckEmptyOffByOne ==
    /\ UNCHANGED notRB
    /\ UNCHANGED <<pBulk, cBulk>>
    /\ cpc = "check"
    /\ IF increment(cCurrentRead) = writeIndex_
          THEN /\ cRet' = "false"
               /\ cpc' = "idle"
          ELSE /\ cRet' = cRet
               /\ cpc' = "load"
    /\ UNCHANGED <<buffer_, readIndex_, writeIndex_, ppc, pCurrentWrite, pNextWrite,
                   pItem, pRet, cCurrentRead, cItem, pushed, popped>>

\* pop line 96-99, mutated: the queue is also reported empty when it holds one item
PopCheckEmptyLeavesOne ==
    /\ UNCHANGED notRB
    /\ UNCHANGED <<pBulk, cBulk>>
    /\ cpc = "check"
    /\ IF cCurrentRead = writeIndex_ \/ increment(cCurrentRead) = writeIndex_
          THEN /\ cRet' = "false"
               /\ cpc' = "idle"
          ELSE /\ cRet' = cRet
               /\ cpc' = "load"
    /\ UNCHANGED <<buffer_, readIndex_, writeIndex_, ppc, pCurrentWrite, pNextWrite,
                   pItem, pRet, cCurrentRead, cItem, pushed, popped>>

\* pop line 96-99: load writeIndex_ (acquire); empty -> return false
PopCheckEmpty ==
    /\ UNCHANGED notRB
    /\ UNCHANGED <<pBulk, cBulk>>
    /\ cpc = "check"
    /\ IF cCurrentRead = writeIndex_
          THEN /\ cRet' = "false"
               /\ cpc' = "idle"
          ELSE /\ cRet' = cRet
               /\ cpc' = "load"
    /\ UNCHANGED <<buffer_, readIndex_, writeIndex_, ppc, pCurrentWrite, pNextWrite,
                   pItem, pRet, cCurrentRead, cItem, pushed, popped>>

\* pop line 101: item = buffer_[currentRead]
PopLoadItem ==
    /\ UNCHANGED notRB
    /\ UNCHANGED <<pBulk, cBulk>>
    /\ cpc = "load"
    /\ cItem' = buffer_[cCurrentRead]
    /\ cpc' = "publish"
    /\ UNCHANGED <<buffer_, readIndex_, writeIndex_, ppc, pCurrentWrite, pNextWrite,
                   pItem, pRet, cCurrentRead, cRet, pushed, popped>>

\* pop line 102-103: readIndex_.store(increment(currentRead), release); return true
PopPublish ==
    /\ UNCHANGED notRB
    /\ UNCHANGED <<pBulk, cBulk>>
    /\ cpc = "publish"
    /\ readIndex_' = increment(cCurrentRead)
    /\ cRet' = "true"
    /\ popped' = Append(popped, cItem)
    /\ cpc' = "idle"
    /\ UNCHANGED <<buffer_, writeIndex_, ppc, pCurrentWrite, pNextWrite, pItem, pRet,
                   cCurrentRead, cItem, pushed>>

NextRB ==
    \/ PushLoadWrite
    \/ PushCheckFull
    \/ PushStoreItem
    \/ PushPublish
    \/ PopLoadRead
    \/ PopCheckEmpty
    \/ PopLoadItem
    \/ PopPublish

\* Largest count given to push_bulk and pop_bulk (the capacity and above: overflow).
MaxBulk == 3

\* The (items, count) pairs given to the bulk calls: a null pointer, a zero
\* count, a count that fits and one that can exceed what is free or stored.
BulkArguments ==
    {<<"null", 2>>, <<"array", 0>>, <<"array", 2>>, <<"array", MaxBulk>>}

\* A bulk call begins: line 191 / 211 returns 0 for a null pointer or a zero
\* count, otherwise the loop is entered with pushed/popped = 0.
BulkCallMade(items, count) ==
    [pc |-> IF items = "null" \/ count = 0 THEN "idle" ELSE "loop",
     items |-> items, count |-> count, done |-> 0,
     ret |-> IF items = "null" \/ count = 0 THEN 0 ELSE -1,
     found |-> size, pushedBefore |-> Len(pushed), poppedBefore |-> Len(popped)]

\* A loop that counts the refused item as well (++pushed before the break).
BulkLoopCountsRefused(call, ret) ==
    IF ret = "false" \/ call.done + 1 >= call.count
       THEN [call EXCEPT !.done = @ + 1, !.pc = "idle", !.ret = call.done + 1]
       ELSE [call EXCEPT !.done = @ + 1]

\* The call of push/pop inside the loop returned: false leaves the loop, true
\* counts the item, and the loop ends at count.
BulkLoopTurned(call, ret) ==
    IF ret = "false"
       THEN [call EXCEPT !.pc = "idle", !.ret = call.done]
    ELSE IF call.done + 1 < call.count
       THEN [call EXCEPT !.done = @ + 1]
       ELSE [call EXCEPT !.done = @ + 1, !.pc = "idle", !.ret = call.done + 1]

\* push_bulk(items, count) line 189-193, called by the producer
PushBulkCalled ==
    /\ UNCHANGED notRB
    /\ ppc = "idle" /\ pBulk.pc = "idle" /\ Len(pushed) < MaxPush
    /\ \E arguments \in BulkArguments :
           pBulk' = BulkCallMade(arguments[1], arguments[2])
    /\ pRet' = "none"
    /\ UNCHANGED <<buffer_, readIndex_, writeIndex_, ppc, pCurrentWrite, pNextWrite,
                   pItem, cpc, cCurrentRead, cItem, cRet, pushed, popped, cBulk>>

\* push_bulk line 194-195: push(items[i]) is called; the items are the next
\* values of the producer's stream
PushBulkNext ==
    /\ pBulk.pc = "loop" /\ pRet = "none"
    /\ PushLoadWrite

\* push_bulk line 195-199: push returned
PushBulkTurned ==
    /\ UNCHANGED notRB
    /\ pBulk.pc = "loop" /\ ppc = "idle" /\ pRet # "none"
    /\ pBulk' = BulkLoopTurned(pBulk, pRet)
    /\ pRet' = "none"
    /\ UNCHANGED <<buffer_, readIndex_, writeIndex_, ppc, pCurrentWrite, pNextWrite,
                   pItem, cpc, cCurrentRead, cItem, cRet, pushed, popped, cBulk>>

\* pop_bulk(items, count) line 209-213, called by the consumer
PopBulkCalled ==
    /\ UNCHANGED notRB
    /\ cpc = "idle" /\ cBulk.pc = "idle"
    /\ \E arguments \in BulkArguments :
           cBulk' = BulkCallMade(arguments[1], arguments[2])
    /\ cRet' = "none"
    /\ UNCHANGED <<buffer_, readIndex_, writeIndex_, ppc, pCurrentWrite, pNextWrite,
                   pItem, pRet, cpc, cCurrentRead, cItem, pushed, popped, pBulk>>

\* pop_bulk line 214-215: pop(items[i]) is called
PopBulkNext ==
    /\ cBulk.pc = "loop" /\ cRet = "none"
    /\ PopLoadRead

\* pop_bulk line 215-219: pop returned
PopBulkTurned ==
    /\ UNCHANGED notRB
    /\ cBulk.pc = "loop" /\ cpc = "idle" /\ cRet # "none"
    /\ cBulk' = BulkLoopTurned(cBulk, cRet)
    /\ cRet' = "none"
    /\ UNCHANGED <<buffer_, readIndex_, writeIndex_, ppc, pCurrentWrite, pNextWrite,
                   pItem, pRet, cpc, cCurrentRead, cItem, pushed, popped, pBulk>>

\* A producer that pushes in bulk and a consumer that pops in bulk.
NextBulk ==
    \/ PushBulkCalled
    \/ PushBulkNext
    \/ PushCheckFull
    \/ PushStoreItem
    \/ PushPublish
    \/ PushBulkTurned
    \/ PopBulkCalled
    \/ PopBulkNext
    \/ PopCheckEmpty
    \/ PopLoadItem
    \/ PopPublish
    \/ PopBulkTurned

----------------------------------------------------------------------------
(* ------------------ RealtimeThreadPool: inference worker ------------------ *)

\* Largest frame size the pool is constructed with (below the buffer capacity).
FrameSize == 2

\* How a call of AiInference::run ends: result.success, !result.success, or a
\* std::exception thrown out of it.
Outcomes == {"success", "failure", "exception"}

\* RealtimeThreadPool(numThreads, priority, frameSize): mFrameSize(frameSize),
\* statistics at zero
AiConstructedWith(frameSize) ==
    /\ mFrameSize = frameSize
    /\ tProcessingFrame = <<>>
    /\ bulkPopped = 0
    /\ mAiStats = [framesProcessed |-> 0, droppedFrames |-> 0]
    /\ handedFrames = <<>>
    /\ lastOutcome = "none"
    /\ handedSinceReset = 0

AiConstructed == AiConstructedWith(FrameSize)

InitAi == \E frameSize \in 1 .. FrameSize : AiConstructedWith(frameSize)

\* What a step of the inference worker leaves alone in the pool.
aiPoolShared == <<mNumThreads, mCollaborators, poolCall, mWorkerThreads, mRunning, mShouldStop, mTaskQueue,
                  mTaskMutex, waitSet, joinable, wTask, clientPc, clientTask, stopPc,
                  stopIdx, stopResult, started, stopTaskSubmitted, submitted, executed>>

\* aiProcessingThreadMain line 289-293: shouldProcessNextFrame(); the processing
\* interval has elapsed or not
AiInterval ==
    /\ UNCHANGED <<midiVars, ppVars, rbVars, aiVars, subVars, decVars, pipeVars, ownerVars,
                   aiPoolShared>>
    /\ tpc[0] = "body"
    /\ \E elapsed \in BOOLEAN :
        tpc' = [tpc EXCEPT ![0] = IF elapsed THEN "size" ELSE "loop"]

\* line 296, mutated: pop_bulk is called whatever size() returns
AiSizeUnchecked ==
    /\ UNCHANGED <<midiVars, ppVars, rbVars, subVars, decVars, pipeVars, ownerVars, aiPoolShared>>
    /\ tpc[0] = "size"
    /\ tpc' = [tpc EXCEPT ![0] = "popBulk"]
    /\ tProcessingFrame' = <<>>
    /\ bulkPopped' = 0
    /\ UNCHANGED <<mFrameSize, mAiStats, handedFrames, lastOutcome, handedSinceReset>>

\* line 296 and 315-318: mRingBuffer->size() >= mFrameSize; pop_bulk is entered
\* with popped = 0, or the thread sleeps and goes round the loop
AiSize ==
    /\ UNCHANGED <<midiVars, ppVars, rbVars, subVars, decVars, pipeVars, ownerVars, aiPoolShared>>
    /\ tpc[0] = "size"
    /\ IF size >= mFrameSize
          THEN /\ tpc' = [tpc EXCEPT ![0] = "popBulk"]
               /\ tProcessingFrame' = <<>>
               /\ bulkPopped' = 0
          ELSE /\ tpc' = [tpc EXCEPT ![0] = "loop"]
               /\ UNCHANGED <<tProcessingFrame, bulkPopped>>
    /\ UNCHANGED <<mFrameSize, mAiStats, handedFrames, lastOutcome, handedSinceReset>>

\* pop_bulk line 215-216: the next pop(items[i]) is called
AiPopCall ==
    /\ tpc[0] = "popBulk" /\ cRet = "none" /\ bulkPopped < mFrameSize
    /\ PopLoadRead

\* pop_bulk line 216-219: pop returned; false leaves the loop, true counts the
\* sample stored in items[i]
AiPopReturned ==
    /\ UNCHANGED <<midiVars, ppVars, subVars, decVars, pipeVars, ownerVars, aiPoolShared>>
    /\ tpc[0] = "popBulk" /\ cpc = "idle" /\ cRet # "none"
    /\ cRet' = "none"
    /\ IF cRet = "true"
          THEN /\ tProcessingFrame' = Append(tProcessingFrame, cItem)
               /\ bulkPopped' = bulkPopped + 1
               /\ tpc' = [tpc EXCEPT ![0] = IF bulkPopped + 1 < mFrameSize
                                               THEN "popBulk" ELSE "popped"]
          ELSE /\ tpc' = [tpc EXCEPT ![0] = "popped"]
               /\ UNCHANGED <<tProcessingFrame, bulkPopped>>
    /\ UNCHANGED <<buffer_, readIndex_, writeIndex_, ppc, pCurrentWrite, pNextWrite,
                   pItem, pRet, cpc, cCurrentRead, cItem, pushed, popped, pBulk, cBulk>>
    /\ UNCHANGED <<mFrameSize, mAiStats, handedFrames, lastOutcome, handedSinceReset>>

\* processAudioFrame, mutated: no catch clause; an exception ends the thread
\* function and no counter moves
AiProcessFrameUncaught ==
    /\ UNCHANGED <<midiVars, ppVars, rbVars, subVars, decVars, pipeVars, ownerVars, aiPoolShared>>
    /\ tpc[0] = "popped" /\ bulkPopped = mFrameSize
    /\ \E outcome \in Outcomes :
        /\ lastOutcome' = outcome
        /\ mAiStats' = IF outcome = "success"
                          THEN [mAiStats EXCEPT !.framesProcessed = @ + 1]
                          ELSE IF outcome = "failure"
                          THEN [mAiStats EXCEPT !.droppedFrames = @ + 1]
                          ELSE mAiStats
        /\ tpc' = [tpc EXCEPT ![0] = IF outcome = "exception" THEN "done" ELSE "loop"]
    /\ handedFrames' = Append(handedFrames, tProcessingFrame)
    /\ handedSinceReset' = handedSinceReset + 1
    /\ UNCHANGED <<mFrameSize, tProcessingFrame, bulkPopped>>

\* line 301-310 and processAudioFrame line 324-348: a whole frame is handed to
\* mAiInference->run; success counts a processed frame, failure and a caught
\* exception count a dropped frame
AiProcessFrame ==
    /\ UNCHANGED <<midiVars, ppVars, rbVars, subVars, decVars, pipeVars, ownerVars, aiPoolShared>>
    /\ tpc[0] = "popped" /\ bulkPopped = mFrameSize
    /\ \E outcome \in Outcomes :
        /\ lastOutcome' = outcome
        /\ mAiStats' = IF outcome = "success"
                          THEN [mAiStats EXCEPT !.framesProcessed = @ + 1]
                          ELSE [mAiStats EXCEPT !.droppedFrames = @ + 1]
    /\ handedFrames' = Append(handedFrames, tProcessingFrame)
    /\ handedSinceReset' = handedSinceReset + 1
    /\ tpc' = [tpc EXCEPT ![0] = "loop"]
    /\ UNCHANGED <<mFrameSize, tProcessingFrame, bulkPopped>>

\* line 311-314: pop_bulk returned fewer samples than a frame
AiPartialFrame ==
    /\ UNCHANGED <<midiVars, ppVars, rbVars, subVars, decVars, pipeVars, ownerVars, aiPoolShared>>
    /\ tpc[0] = "popped" /\ bulkPopped # mFrameSize
    /\ mAiStats' = [mAiStats EXCEPT !.droppedFrames = @ + 1]
    /\ tpc' = [tpc EXCEPT ![0] = "loop"]
    /\ UNCHANGED <<mFrameSize, tProcessingFrame, bulkPopped, handedFrames, lastOutcome,
                   handedSinceReset>>

\* resetStatistics(), called by the client
ResetStatistics ==
    /\ UNCHANGED <<midiVars, ppVars, rbVars, poolVars, subVars, decVars, pipeVars, ownerVars>>
    /\ clientPc = "idle"
    /\ mAiStats' = [framesProcessed |-> 0, droppedFrames |-> 0]
    /\ handedSinceReset' = 0
    /\ UNCHANGED <<mFrameSize, tProcessingFrame, bulkPopped, handedFrames, lastOutcome>>

\* The audio thread pushes, the inference worker pops whole frames, the client
\* starts the pool, resets the statistics and stops the pool.
NextAi ==
    \/ Start
    \/ StopCalled
    \/ StopSetShouldStop(Client)
    \/ StopSetRunning(Client)
    \/ StopNotify(Client)
    \/ StopJoin(Client)
    \/ StopClearThreads(Client)
    \/ StopClearQueue(Client)
    \/ ResetStatistics
    \/ PushLoadWrite
    \/ PushCheckFull
    \/ PushStoreItem
    \/ PushPublish
    \/ AiLoop
    \/ AiInterval
    \/ AiSize
    \/ AiPopCall
    \/ PopCheckEmpty
    \/ PopLoadItem
    \/ PopPublish
    \/ AiPopReturned
    \/ AiProcessFrame

----------------------------------------------------------------------------
(* ---------------- RealtimeThreadPool: a submitting thread ---------------- *)

\* Callables the submitting thread submits to a running pool when it fills the queue.
MaxSubmits == 66
\* Calls of start() the client makes after a stop() that returned.
MaxRestarts == 1

\* What the submitting thread passes to submitTask: a callable, or an empty
\* std::function.
SubTasks == {"work", "empty"}

\* No call of submitTask has been made.
SubConstructedWith(limit) ==
    /\ subPc = "idle"
    /\ subTask = "none"
    /\ subRet = "none"
    /\ subCalls = 0
    /\ subLimit = limit
    /\ restarts = 0

SubConstructed == SubConstructedWith(0)

\* What a step of the submitting thread leaves alone in the pool.
subPoolShared == <<mNumThreads, mCollaborators, poolCall, mWorkerThreads, mRunning, mShouldStop, tpc, joinable,
                   wTask, clientPc, clientTask, stopPc, stopIdx, stopResult, started,
                   stopTaskSubmitted, submitted, executed>>

\* submitTask(task) line 109-111: refused when the pool is not running or the
\* task is empty
SubCheck ==
    /\ UNCHANGED <<rbVars, midiVars, ppVars, aiVars, decVars, pipeVars, ownerVars, subPoolShared>>
    /\ subPc = "idle" /\ subCalls < subLimit
    /\ \E task \in SubTasks :
        /\ subTask' = task
        /\ IF ~mRunning \/ task = "empty"
              THEN subRet' = "false" /\ subPc' = "idle" /\ subCalls' = subCalls
              ELSE subRet' = "none" /\ subPc' = "submitLock" /\ subCalls' = subCalls + 1
    /\ UNCHANGED <<mTaskQueue, mTaskMutex, waitSet, subLimit, restarts>>

\* submitTask line 113-119, mutated: the queue-size test is missing
SubPushUnbounded ==
    /\ UNCHANGED <<rbVars, midiVars, ppVars, aiVars, decVars, pipeVars, ownerVars, subPoolShared>>
    /\ subPc = "submitLock" /\ mTaskMutex = NoOwner
    /\ mTaskQueue' = Append(mTaskQueue, subTask)
    /\ subPc' = "submitNotify"
    /\ UNCHANGED subRet
    /\ UNCHANGED <<mTaskMutex, waitSet, subTask, subCalls, subLimit, restarts>>

\* submitTask line 113-119: under mTaskMutex, refuse on a full queue or push
SubPush ==
    /\ UNCHANGED <<rbVars, midiVars, ppVars, aiVars, decVars, pipeVars, ownerVars, subPoolShared>>
    /\ subPc = "submitLock" /\ mTaskMutex = NoOwner
    /\ IF Len(mTaskQueue) >= kMaxQueueSize
          THEN /\ subRet' = "false"
               /\ subPc' = "idle"
               /\ UNCHANGED mTaskQueue
          ELSE /\ mTaskQueue' = Append(mTaskQueue, subTask)
               /\ subPc' = "submitNotify"
               /\ UNCHANGED subRet
    /\ UNCHANGED <<mTaskMutex, waitSet, subTask, subCalls, subLimit, restarts>>

\* submitTask line 121-122: notify_one wakes one waiting thread if there is one;
\* return true
SubNotify ==
    /\ UNCHANGED <<rbVars, midiVars, ppVars, aiVars, decVars, pipeVars, ownerVars, subPoolShared>>
    /\ subPc = "submitNotify"
    /\ IF waitSet = {}
          THEN UNCHANGED waitSet
          ELSE \E w \in waitSet : waitSet' = waitSet \ {w}
    /\ subRet' = "true"
    /\ subPc' = "idle"
    /\ UNCHANGED <<mTaskQueue, mTaskMutex, subTask, subCalls, subLimit, restarts>>

\* start() line 38-71, called again by the client after its stop() returned:
\* mWorkerThreads keeps its capacity over clear(), the task queue is not touched
StartAgain ==
    /\ UNCHANGED <<rbVars, midiVars, ppVars, aiVars, decVars, pipeVars, ownerVars>>
    /\ clientPc = "idle" /\ started /\ stopResult[Client] = "returned"
    /\ ~mRunning /\ restarts < MaxRestarts
    /\ restarts' = restarts + 1
    /\ \E collaborators \in ClientCollaborators :
        /\ collaborators.ringBuffer # "nullptr" /\ collaborators.aiInference # "nullptr"
        /\ poolCall' = StartCallMade(collaborators)
        /\ mCollaborators' = collaborators
    /\ mRunning' = TRUE
    /\ mShouldStop' = FALSE
    /\ mWorkerThreads' = [i \in 1 .. mNumThreads |-> i - 1]
    /\ tpc' = [t \in Threads |-> IF t < mNumThreads THEN "loop" ELSE tpc[t]]
    /\ joinable' = [t \in Threads |-> t < mNumThreads \/ joinable[t]]
    /\ UNCHANGED <<mNumThreads, mTaskQueue, mTaskMutex, waitSet, wTask, clientPc,
                   clientTask, stopPc, stopIdx, stopResult, started, stopTaskSubmitted,
                   submitted, executed>>
    /\ UNCHANGED <<subPc, subTask, subRet, subCalls, subLimit>>

\* start() line 42-45 called on the running pool, mutated: the collaborators
\* given are stored before the test
StartRunningStoresCollaborators ==
    /\ UNCHANGED <<rbVars, midiVars, ppVars, aiVars, decVars, pipeVars, ownerVars, subVars>>
    /\ clientPc = "idle" /\ mRunning
    /\ \E collaborators \in OtherCollaborators :
        /\ poolCall' = StartCallMade(collaborators)
        /\ mCollaborators' = collaborators
    /\ UNCHANGED <<mNumThreads, mWorkerThreads, mRunning, mShouldStop,
                   mTaskQueue, mTaskMutex, waitSet, tpc, joinable, wTask, clientPc,
                   clientTask, stopPc, stopIdx, stopResult, started, stopTaskSubmitted,
                   submitted, executed>>

\* start() line 42-45 called on the running pool, with any collaborators:
\* "Already running"
StartRunning ==
    /\ UNCHANGED <<rbVars, midiVars, ppVars, aiVars, decVars, pipeVars, ownerVars, subVars>>
    /\ clientPc = "idle" /\ mRunning
    /\ \E collaborators \in OtherCollaborators :
        poolCall' = StartCallMade(collaborators)
    /\ UNCHANGED <<mNumThreads, mCollaborators, mWorkerThreads, mRunning, mShouldStop,
                   mTaskQueue, mTaskMutex, waitSet, tpc, joinable, wTask, clientPc,
                   clientTask, stopPc, stopIdx, stopResult, started, stopTaskSubmitted,
                   submitted, executed>>

\* start() line 47-50 called with a null collaborator on the pool that is not
\* running: "Invalid ring buffer or AI inference engine"
StartRefused ==
    /\ UNCHANGED <<rbVars, midiVars, ppVars, aiVars, decVars, pipeVars, ownerVars, subVars>>
    /\ clientPc = "idle" /\ ~mRunning
    /\ \E collaborators \in ClientCollaborators :
        /\ collaborators.ringBuffer = "nullptr" \/ collaborators.aiInference = "nullptr"
        /\ poolCall' = StartCallMade(collaborators)
    /\ UNCHANGED <<mNumThreads, mCollaborators, mWorkerThreads, mRunning, mShouldStop,
                   mTaskQueue, mTaskMutex, waitSet, tpc, joinable, wTask, clientPc,
                   clientTask, stopPc, stopIdx, stopResult, started, stopTaskSubmitted,
                   submitted, executed>>

\* A thread fills the task queue of a running pool while the worker empties it.
NextSubmit ==
    \/ Start
    \/ SubCheck
    \/ SubPush
    \/ SubNotify
    \/ WorkerLoop(1)
    \/ WorkerLock(1)
    \/ WorkerPred(1)
    \/ WorkerBlock(1)
    \/ WorkerWake(1)
    \/ WorkerCheck(1)
    \/ WorkerExecWork(1)

\* A thread submits tasks while the client starts, stops and starts the pool again.
NextStopSubmit ==
    \/ Start
    \/ StartAgain
    \/ StopCalled
    \/ StopSetShouldStop(Client)
    \/ StopSetRunning(Client)
    \/ StopNotify(Client)
    \/ StopJoin(Client)
    \/ StopClearThreads(Client)
    \/ StopClearQueue(Client)
    \/ SubCheck
    \/ SubPush
    \/ SubNotify
    \/ AiLoop
    \/ AiBody
    \/ WorkerLoop(1)
    \/ WorkerLock(1)
    \/ WorkerPred(1)
    \/ WorkerBlock(1)
    \/ WorkerWake(1)
    \/ SpuriousWakeup(1)
    \/ WorkerCheck(1)
    \/ WorkerExecWork(1)

\* The same with the client also calling start() on the running pool and, with
\* a null collaborator, on the stopped pool.
NextPoolLife == NextStopSubmit \/ StartRunning \/ StartRefused

----------------------------------------------------------------------------
(* -------------------------- PolyphaseDecimator -------------------------- *)
\* The input stream is the sequence 1, 2, 3, ...: every sample is named by its
\* position, zero is the initial content of the history. An output sample is
\* recorded as the input position it is emitted after, the sub-filter selected and
\* the history window the convolution reads (computeConvolutionScalar:
\* inputBuffer_[(bufferIndex_ - 1 - i + FilterLength) % FilterLength], i < kPhaseLength).

\* Input samples consumed in a run, and the longest chunk passed to one call.
MaxIn == 9
MaxChunk == 4
\* DECIM_FACTOR, the default DecimationFactor
DecimationFactor == 3
\* kPhaseLength = FilterLength / DecimationFactor, FilterLength = DecimationFactor * 16
kPhaseLength == 16
FilterLength == DecimationFactor * kPhaseLength

\* PolyphaseDecimator(): inputBuffer_(FilterLength, 0.0f), bufferIndex_(0)
DecimConstructed ==
    /\ inputBuffer_ = [i \in 0 .. FilterLength - 1 |-> 0]
    /\ bufferIndex_ = 0
    /\ decOutput = <<>>
    /\ decConsumed = 0
    /\ decCall = [n |-> 0, ret |-> 0, aligned |-> TRUE]

\* computeConvolutionScalar line 375: the history index read for tap i, before
\* and after the reduction modulo FilterLength
TapOffset(index, i) == index - 1 - i + FilterLength
bufferIdx(index, i) == TapOffset(index, i) % FilterLength

\* computeFilteredSample, mutated: the sub-filter is bufferIndex_ % DecimationFactor
computeFilteredSampleForward(buffer, index) ==
    [phase |-> index % DecimationFactor,
     window |-> [i \in 0 .. kPhaseLength - 1 |-> buffer[bufferIdx(index, i)]]]

\* computeFilteredSample with the buffer and index at the time of the call
computeFilteredSample(buffer, index) ==
    [phase |-> (DecimationFactor - 1) - (index % DecimationFactor),
     window |-> [i \in 0 .. kPhaseLength - 1 |-> buffer[bufferIdx(index, i)]]]

\* processMono line 114-123: the passes i, i+1, ... of the loop over input; d is
\* the decimator with the output written so far
RECURSIVE processMonoFrom(_, _, _)
processMonoFrom(d, input, i) ==
    IF i >= Len(input) THEN d
    ELSE LET buffer == [d.buffer EXCEPT ![d.index] = input[i + 1]]
             index == (d.index + 1) % FilterLength
             emitted == (i % DecimationFactor) = (DecimationFactor - 1)
         IN  processMonoFrom(
                 [buffer |-> buffer, index |-> index, consumed |-> d.consumed + 1,
                  out |-> IF emitted
                             THEN Append(d.out,
                                     [after |-> d.consumed + 1,
                                      sample |-> computeFilteredSample(buffer, index)])
                             ELSE d.out],
                 input, i + 1)

\* processMono(input, output, numInputSamples)
processMono(d, input) == processMonoFrom(d, input, 0)

\* A decimator just constructed or reset.
FreshDecimator ==
    [buffer |-> [i \in 0 .. FilterLength - 1 |-> 0], index |-> 0, consumed |-> 0,
     out |-> <<>>]

\* The samples at positions from + 1 .. from + n of the input stream.
Chunk(from, n) == [k \in 1 .. n |-> from + k]

\* The caller passes the next n samples of the stream to processMono.
ChunkProcessed ==
    /\ UNCHANGED <<rbVars, midiVars, ppVars, poolVars, aiVars, subVars, pipeVars, ownerVars>>
    /\ \E n \in 0 .. MaxChunk :
        /\ decConsumed + n <= MaxIn
        /\ LET d == processMono([buffer |-> inputBuffer_, index |-> bufferIndex_,
                                 consumed |-> decConsumed, out |-> decOutput],
                                Chunk(decConsumed, n))
           IN  /\ inputBuffer_' = d.buffer
               /\ bufferIndex_' = d.index
               /\ decConsumed' = d.consumed
               /\ decOutput' = d.out
               /\ decCall' = [n |-> n, ret |-> Len(d.out) - Len(decOutput),
                              aligned |-> decCall.aligned /\ n % DecimationFactor = 0]

\* Input samples consumed in a long run: the history buffer wraps.
MaxStream == FilterLength + 2 * DecimationFactor

\* The caller passes one or two whole decimation cycles of samples, as far as the
\* history buffer wraps.
WholeCyclesProcessed ==
    /\ UNCHANGED <<rbVars, midiVars, ppVars, poolVars, aiVars, subVars, pipeVars, ownerVars>>
    /\ \E n \in {DecimationFactor, 2 * DecimationFactor} :
        /\ decConsumed + n <= MaxStream
        /\ LET d == processMono([buffer |-> inputBuffer_, index |-> bufferIndex_,
                                 consumed |-> decConsumed, out |-> decOutput],
                                Chunk(decConsumed, n))
           IN  /\ inputBuffer_' = d.buffer
               /\ bufferIndex_' = d.index
               /\ decConsumed' = d.consumed
               /\ decOutput' = d.out
               /\ decCall' = [n |-> n, ret |-> Len(d.out) - Len(decOutput),
                              aligned |-> decCall.aligned]

\* reset(); the stream starts again
DecimatorReset ==
    /\ UNCHANGED <<rbVars, midiVars, ppVars, poolVars, aiVars, subVars, pipeVars, ownerVars>>
    /\ inputBuffer_' = [i \in 0 .. FilterLength - 1 |-> 0]
    /\ bufferIndex_' = 0
    /\ decOutput' = <<>>
    /\ decConsumed' = 0
    /\ decCall' = [n |-> 0, ret |-> 0, aligned |-> TRUE]

NextDecim == ChunkProcessed \/ DecimatorReset

NextDecimLong == ChunkProcessed \/ WholeCyclesProcessed \/ DecimatorReset

----------------------------------------------------------------------------
(* ---------------- PostProcessor feeding a MidiEventHandler ---------------- *)
\* The synthetic confidence sequences of the tests are fed frame by frame to a
\* PostProcessor with the configuration of the test fixture; after every frame a
\* MidiEventHandler is driven with hasHit(), and polled for pending events at the
\* sample position of the current block.

\* Samples per audio block, and blocks in a run.
BlockSize == 64
MaxBlocks == 3

\* createSyntheticConfidences, in hundredths
TestSequences ==
    [simple_hit |-> <<10, 20, 30, 70, 80, 90, 80, 70, 30, 20, 10>>,
     noisy_hit |-> <<10, 90, 20, 70, 10, 80, 90, 20, 80, 10, 20>>,
     multiple_hits |-> <<10, 80, 90, 80, 10, 10, 10, 70, 80, 70, 10>>,
     false_positive |-> <<10, 20, 90, 10, 20, 10>>]

\* No sequence is fed.
PipeConstructed ==
    /\ pushedAtDeactivation = 0
    /\ feedName = "none"
    /\ feed = <<>>
    /\ hitDriven = TRUE
    /\ midiLog = <<>>
    /\ active = FALSE
    /\ procPc = "idle"

InitPipe ==
    /\ pushedAtDeactivation = 0
    /\ \E name \in DOMAIN TestSequences :
        /\ feedName = name
        /\ feed = TestSequences[name]
    /\ hitDriven = TRUE
    /\ midiLog = <<>>
    /\ active = FALSE
    /\ procPc = "idle"

\* The events returned so far, with the one the call of this step returned.
MidiLogged == IF midiCall'.ret = "event" THEN Append(midiLog, mCurrentEvent') ELSE midiLog

\* processConfidence(confidence) for the next frame of the sequence
FrameFed ==
    /\ UNCHANGED <<rbVars, midiVars, poolVars, aiVars, subVars, decVars, ownerVars>>
    /\ feed # <<>> /\ hitDriven
    /\ processConfidence(Head(feed))
    /\ feed' = Tail(feed)
    /\ hitDriven' = FALSE
    /\ UNCHANGED <<feedName, midiLog, active, procPc>>

\* processHitState(hasHit(), 0, hostTimeStamp), as KhDetectorProcessor::process
\* calls it
HitStateDriven ==
    /\ UNCHANGED <<rbVars, ppVars, poolVars, aiVars, subVars, decVars, ownerVars>>
    /\ ~hitDriven
    /\ \E hostTimeStamp \in TimeStamps : processHitState(mHadHit, 0, hostTimeStamp)
    /\ hitDriven' = TRUE
    /\ midiLog' = MidiLogged
    /\ UNCHANGED <<samplePos, feedName, feed, active, procPc>>

\* processPendingEvents(mCurrentSamplePosition)
PendingPolledAtBlock ==
    /\ UNCHANGED <<rbVars, ppVars, poolVars, aiVars, subVars, decVars, ownerVars>>
    /\ processPendingEvents(samplePos)
    /\ midiLog' = MidiLogged
    /\ UNCHANGED <<samplePos, feedName, feed, hitDriven, active, procPc>>

\* mCurrentSamplePosition += data.numSamples
BlockAdvanced ==
    /\ UNCHANGED <<rbVars, ppVars, poolVars, aiVars, subVars, decVars, pipeVars, ownerVars>>
    /\ samplePos < MaxBlocks * BlockSize
    /\ samplePos' = samplePos + BlockSize
    /\ UNCHANGED <<mConfig, mLastHitState, mNoteIsOn, mNoteOffScheduledAt,
                   mLastEventTimeStamp, mCurrentEvent, mHasCurrentEvent, mStats,
                   midiCall, hitStarts, hitEnds, scheduleRecorded, configGiven,
                   resetFound>>

NextPipe == FrameFed \/ HitStateDriven \/ PendingPolledAtBlock \/ BlockAdvanced

----------------------------------------------------------------------------
(* --------------------------- KhDetectorProcessor -------------------------- *)
\* The MIDI side of the processor: setActive and process, called by the host one
\* at a time: setActive with the state the plugin is not in, process only while
\* the plugin is active. The events process gets
\* from the handler are sent to the host's event list (sendVST3Event), recorded
\* in midiLog. hasHit() of the inference is any value.

\* The configuration KhDetectorProcessor() gives its handler.
ProcessorMidiConfig ==
    [hitNote |-> 45, hitVelocity |-> 127, channel |-> 0, sendNoteOff |-> TRUE,
     noteOffDelay |-> 0, useHostTimeStamp |-> TRUE]

InitProc ==
    /\ MidiConstructedWith(ProcessorMidiConfig)
    /\ PipeConstructed

\* setActive(true): the handler is reset and the sample position set to 0
Activated ==
    /\ UNCHANGED <<rbVars, ppVars, poolVars, aiVars, subVars, decVars, ownerVars>>
    /\ ~active /\ procPc = "idle"
    /\ reset
    /\ samplePos' = 0
    /\ active' = TRUE
    /\ UNCHANGED <<feedName, feed, hitDriven, midiLog, procPc>>

\* setActive(false): the handler is reset
Deactivated ==
    /\ UNCHANGED <<rbVars, ppVars, poolVars, aiVars, subVars, decVars>>
    /\ active /\ procPc = "idle"
    /\ ppc = "idle" /\ cpc = "idle"
    /\ reset
    /\ active' = FALSE
    /\ pushedAtDeactivation' = Len(pushed)
    /\ UNCHANGED <<samplePos, feedName, feed, hitDriven, midiLog, procPc>>

\* process line 270-290: processHitState(currentHit, 0, hostTimeStamp), the event
\* returned is sent
ProcessHitState ==
    /\ UNCHANGED <<rbVars, ppVars, poolVars, aiVars, subVars, decVars, ownerVars>>
    /\ active /\ procPc = "idle"
    /\ samplePos < MaxBlocks * BlockSize
    /\ \E currentHit \in BOOLEAN, hostTimeStamp \in TimeStamps :
           processHitState(currentHit, 0, hostTimeStamp)
    /\ midiLog' = MidiLogged
    /\ procPc' = "pending"
    /\ UNCHANGED <<samplePos, feedName, feed, hitDriven, active>>

\* process line 293-301: processPendingEvents(mCurrentSamplePosition), the event
\* returned is sent, and the position advances by the block
ProcessPending ==
    /\ UNCHANGED <<rbVars, ppVars, poolVars, aiVars, subVars, decVars, ownerVars>>
    /\ procPc = "pending"
    /\ processPendingEvents(samplePos)
    /\ midiLog' = MidiLogged
    /\ samplePos' = samplePos + BlockSize
    /\ procPc' = "idle"
    /\ UNCHANGED <<feedName, feed, hitDriven, active>>

NextProc == Activated \/ Deactivated \/ ProcessHitState \/ ProcessPending

\* RingBuffer::clear(), RingBuffer.h line 176-180: both indices are stored as 0
clear ==
    /\ readIndex_' = 0
    /\ writeIndex_' = 0

\* setupProcessing line 119-126 with initializeForSampleRate line 360-368: the
\* decimator is reset and mDecimatedBuffer cleared. The host calls it on an
\* inactive plugin.
SetupProcessing ==
    /\ UNCHANGED <<midiVars, ppVars, poolVars, aiVars, subVars, pipeVars, ownerVars>>
    /\ ~active
    /\ inputBuffer_' = [i \in 0 .. FilterLength - 1 |-> 0]
    /\ bufferIndex_' = 0
    /\ decOutput' = <<>>
    /\ decConsumed' = 0
    /\ decCall' = [n |-> 0, ret |-> 0, aligned |-> TRUE]
    /\ clear
    /\ UNCHANGED <<buffer_, ppc, pCurrentWrite, pNextWrite, pItem, pRet, cpc,
                   cCurrentRead, cItem, cRet, pushed, popped, pBulk, cBulk>>

\* process line 229-237 on the active plugin: the next decimated sample is
\* pushed to mDecimatedBuffer
SamplePushed == active /\ PushLoadWrite

\* The worker started by setActive(true) and joined by setActive(false) pops
\* the next sample from mDecimatedBuffer.
SamplePopped == active /\ PopLoadRead

\* The plugin is set up, activated and deactivated by the host while the audio
\* thread pushes samples and the worker pops them.
NextOwner ==
    \/ SetupProcessing
    \/ Activated
    \/ Deactivated
    \/ SamplePushed
    \/ PushCheckFull
    \/ PushStoreItem
    \/ PushPublish
    \/ SamplePopped
    \/ PopCheckEmpty
    \/ PopLoadItem
    \/ PopPublish

\* The host keeps calling process while the plugin is active, and a call of
\* process runs to its end.
FairProc == WF_vars(ProcessHitState) /\ WF_vars(ProcessPending)

----------------------------------------------------------------------------
(* ---------------------------- Specifications ---------------------------- *)

\* One producer thread and one consumer thread on a RingBuffer.
InitSpecRB ==
    InitRB /\ MidiConstructed /\ PPConstructed /\ PoolConstructed /\ AiConstructed
    /\ SubConstructed /\ DecimConstructed /\ PipeConstructed
SpecRB == InitSpecRB /\ [][NextRB]_vars

\* The same buffer used through push_bulk and pop_bulk.
SpecBulk == InitSpecRB /\ [][NextBulk]_vars

\* The consumer keeps calling pop: a call that can begin begins, and a call that
\* began goes on to its return. Nothing is required of the producer.
FairConsumer ==
    /\ WF_vars(PopLoadRead)
    /\ WF_vars(PopCheckEmpty)
    /\ WF_vars(PopLoadItem)
    /\ WF_vars(PopPublish)
SpecRBFair == InitSpecRB /\ [][NextRB]_vars /\ FairConsumer

\* A MidiEventHandler driven with arbitrary hit states and positions.
InitSpecMidi ==
    InitMidi /\ InitRB /\ PPConstructed /\ PoolConstructed /\ AiConstructed
    /\ SubConstructed /\ DecimConstructed /\ PipeConstructed
SpecMidi == InitSpecMidi /\ [][NextMidi]_vars

\* A MidiEventHandler with sendNoteOff enabled, driven at increasing positions.
InitSpecMidiSeq ==
    InitMidiSeq /\ InitRB /\ PPConstructed /\ PoolConstructed /\ AiConstructed
    /\ SubConstructed /\ DecimConstructed /\ PipeConstructed
SpecMidiSeq == InitSpecMidiSeq /\ [][NextMidiSeq]_vars

\* The same handler reconfigured while it is driven.
SpecMidiConfigs == InitSpecMidiSeq /\ [][NextMidiConfigs]_vars

\* A MidiEventHandler over its life: constructed with any configuration, driven,
\* reset and reconfigured.
InitSpecMidiLife ==
    InitMidiLife /\ InitRB /\ PPConstructed /\ PoolConstructed /\ AiConstructed
    /\ SubConstructed /\ DecimConstructed /\ PipeConstructed
SpecMidiLife == InitSpecMidiLife /\ [][NextMidiLife]_vars

\* A PostProcessor with a callback installed, fed one confidence per frame.
InitSpecPP ==
    InitPP /\ InitRB /\ MidiConstructed /\ PoolConstructed /\ AiConstructed
    /\ SubConstructed /\ DecimConstructed /\ PipeConstructed
SpecPP == InitSpecPP /\ [][NextPP]_vars

\* A PostProcessor over its life: frames, reset, updateConfig and setEnabled.
InitSpecPPLife ==
    InitPPLife /\ InitRB /\ MidiConstructed /\ PoolConstructed /\ AiConstructed
    /\ SubConstructed /\ DecimConstructed /\ PipeConstructed
SpecPPLife == InitSpecPPLife /\ [][NextPPLife]_vars

\* A PostProcessor that is fed frames while it is enabled and disabled.
SpecPPEnabling == InitSpecPPLife /\ [][NextPPEnabling]_vars

\* An enabled PostProcessor that is fed frames and reset, never reconfigured.
SpecPPResets == InitSpecPPLife /\ [][NextPPResets]_vars

\* A PostProcessor whose filter window fills and wraps between resets and
\* changes of the filter size.
InitSpecPPWindow ==
    InitPPWindow /\ InitRB /\ MidiConstructed /\ PoolConstructed /\ AiConstructed
    /\ SubConstructed /\ DecimConstructed /\ PipeConstructed
SpecPPWindow == InitSpecPPWindow /\ [][NextPPWindow]_vars

\* A PostProcessor constructed and reconfigured with configurations of any kind.
InitSpecPPConfig ==
    InitPPConfig /\ InitRB /\ MidiConstructed /\ PoolConstructed /\ AiConstructed
    /\ SubConstructed /\ DecimConstructed /\ PipeConstructed
SpecPPConfig == InitSpecPPConfig /\ [][AnyConfigUpdated]_vars

\* A RealtimeThreadPool with its client thread and its pool threads.
InitSpecPool ==
    InitPool /\ InitRB /\ MidiConstructed /\ PPConstructed /\ AiConstructed
    /\ SubConstructed /\ DecimConstructed /\ PipeConstructed
SpecPool == InitSpecPool /\ [][NextPool]_vars

\* The same under a fair scheduler.
SpecPoolFair == InitSpecPool /\ [][NextPool]_vars /\ FairPool

\* The inference worker of a pool of one thread, with the audio thread pushing
\* into the ring buffer it pops from.
InitSpecAi ==
    InitAi /\ PoolConstructedWith(1) /\ InitRB /\ MidiConstructed /\ PPConstructed
    /\ SubConstructed /\ DecimConstructed /\ PipeConstructed
SpecAi == InitSpecAi /\ [][NextAi]_vars

\* A pool of two threads whose task queue a submitting thread fills.
InitSpecSubmit ==
    /\ SubConstructedWith(MaxSubmits) /\ PoolConstructedWith(2)
    /\ AiConstructed /\ InitRB /\ MidiConstructed /\ PPConstructed
    /\ DecimConstructed /\ PipeConstructed
SpecSubmit == InitSpecSubmit /\ [][NextSubmit]_vars

\* A pool of two threads stopped and started again by its client while another
\* thread submits tasks.
InitSpecStopSubmit ==
    /\ SubConstructedWith(MaxTasks) /\ PoolConstructedWith(2)
    /\ AiConstructed /\ InitRB /\ MidiConstructed /\ PPConstructed
    /\ DecimConstructed /\ PipeConstructed
SpecStopSubmit == InitSpecStopSubmit /\ [][NextStopSubmit]_vars

\* The same pool with start() and stop() called in every state of the pool.
SpecPoolLife == InitSpecStopSubmit /\ [][NextPoolLife]_vars

\* A PolyphaseDecimator fed a stream in chunks of any length.
InitSpecDecim ==
    /\ DecimConstructed /\ PipeConstructed /\ InitRB /\ MidiConstructed
    /\ PPConstructed /\ PoolConstructed /\ AiConstructed /\ SubConstructed
SpecDecim == InitSpecDecim /\ [][NextDecim]_vars

\* The same decimator fed long enough for its history buffer to wrap.
SpecDecimLong == InitSpecDecim /\ [][NextDecimLong]_vars

\* The PostProcessor of the test fixture and a default MidiEventHandler, run on
\* one of the synthetic sequences.
InitSpecPipe ==
    /\ InitPipe /\ PPConstructed /\ MidiConstructed /\ DecimConstructed
    /\ InitRB /\ PoolConstructed /\ AiConstructed /\ SubConstructed
SpecPipe == InitSpecPipe /\ [][NextPipe]_vars

\* The processor's MIDI side under a host that activates, deactivates and
\* processes blocks.
InitSpecProc ==
    /\ InitProc /\ PPConstructed /\ DecimConstructed
    /\ InitRB /\ PoolConstructed /\ AiConstructed /\ SubConstructed
SpecProc == InitSpecProc /\ [][NextProc]_vars
SpecProcFair == InitSpecProc /\ [][NextProc]_vars /\ FairProc

\* KhDetectorProcessor as the owner of mDecimatedBuffer.
SpecOwner == InitSpecProc /\ [][NextOwner]_vars

----------------------------------------------------------------------------
(* -------------------------------- Claims -------------------------------- *)

\* The steps of a push() / a pop() that has begun.
ProducerStep == PushCheckFull \/ PushStoreItem \/ PushPublish
ConsumerStep == PopCheckEmpty \/ PopLoadItem \/ PopPublish

IsPrefix(s, t) == Len(s) <= Len(t) /\ \A i \in 1 .. Len(s) : s[i] = t[i]

\* C1: with one producer and one consumer, under every interleaving of the index
\* loads, slot accesses and index stores, the values returned by successful pops
\* are a prefix of the values accepted by successful pushes (nothing lost,
\* duplicated or reordered), also across index wrap-around.
C1_PopsArePrefixOfPushes == IsPrefix(popped, pushed)

\* C1 witness: more than Size values went through (the indices wrapped) and all
\* of them came out.
C1_Witness_Wrapped == Len(popped) > Size /\ popped = pushed

\* C2: push returns false exactly when size() = capacity() at its full test, pop
\* returns false exactly when the queue is empty at its empty test; a failed
\* operation leaves the indices and the slots unchanged; no step of a begun
\* operation waits for the other thread.
C2_FailExactlyWhenFullOrEmpty ==
    /\ [](/\ ppc # "idle" => ENABLED ProducerStep
          /\ cpc # "idle" => ENABLED ConsumerStep)
    /\ [][/\ (ppc = "check" /\ ppc' # "check") =>
               /\ (ppc' = "idle" /\ pRet' = "false") <=> (size = capacity)
               /\ (ppc' = "store") <=> (size # capacity)
               /\ ppc' = "idle" => UNCHANGED <<buffer_, readIndex_, writeIndex_>>
          /\ (cpc = "check" /\ cpc' # "check") =>
               /\ (cpc' = "idle" /\ cRet' = "false") <=> (size = 0)
               /\ (cpc' = "load") <=> (size # 0)
               /\ cpc' = "idle" => UNCHANGED <<buffer_, readIndex_, writeIndex_>>
       ]_vars

\* C2 witness: a push was refused on a full queue that had wrapped, and a pop was
\* refused too.
C2_Witness_RefusedBoth ==
    /\ pRet = "false" /\ ppc = "idle" /\ size = capacity /\ writeIndex_ < readIndex_
    /\ cRet = "false"

\* C3: a stop() begun by the client (not a pool thread) on a running pool
\* terminates under a fair scheduler: it returns, every pool thread has finished
\* and was joined, and isRunning() is false.
C3_ExternalStopTerminates ==
    (stopPc[Client] # "idle") ~>
        (/\ stopResult[Client] = "returned"
         /\ ~mRunning
         /\ \A t \in Threads : tpc[t] \in {"none", "done"} /\ ~joinable[t])

\* C4: when a stop() called from inside a task on a worker thread has ended, it
\* has returned, the pool is stopped and every other pool thread has terminated.
C4_StopFromTaskReturns ==
    \A w \in Threads :
        stopResult[w] # "none" =>
            /\ stopResult[w] = "returned"
            /\ ~mRunning
            /\ \A t \in Threads \ {w} : tpc[t] \in {"none", "done"}


\* The handler's own state (everything but the call record and the histories).
midiState == <<mConfig, mLastHitState, mNoteIsOn, mNoteOffScheduledAt,
               mLastEventTimeStamp, mCurrentEvent, mHasCurrentEvent, mStats>>

\* The step returned exactly one event of the given type and counted it.
EmittedOne(type) ==
    /\ midiCall'.ret = "event"
    /\ mCurrentEvent'.type = type
    /\ mStats'.totalEvents = mStats.totalEvents + 1
    /\ mStats'.noteOnEvents = mStats.noteOnEvents + (IF type = "NoteOn" THEN 1 ELSE 0)
    /\ mStats'.noteOffEvents = mStats.noteOffEvents + (IF type = "NoteOff" THEN 1 ELSE 0)

\* The step returned no event and counted none.
EmittedNone == midiCall'.ret = "nullptr" /\ mStats' = mStats

\* C5: with sendNoteOff enabled and polls at increasing positions, once every
\* scheduled note-off has fired the number of NoteOn events equals the number of
\* false->true hit transitions and the number of NoteOff events the number of
\* true->false transitions, also when a hit starts while a note-off is pending.
C5_EventCountsMatchTransitions ==
    ~scheduleRecorded =>
        /\ mStats.noteOnEvents = hitStarts
        /\ mStats.noteOffEvents = hitEnds

\* C7 (as claimed): processHitState is a no-op when hit equals the last observed
\* value; false->true with no note sounding emits one NoteOn; true->false with a
\* note sounding emits one NoteOff at once if noteOffDelay is 0 and otherwise
\* emits nothing and records the schedule offset + noteOffDelay.
C7_Original_HitStateTransitions ==
    [][midiCall'.op = "processHitState" =>
        /\ (midiCall'.hit = mLastHitState) =>
               midiCall'.ret = "nullptr" /\ midiState' = midiState
        /\ (midiCall'.hit /\ ~mLastHitState /\ ~mNoteIsOn) =>
               EmittedOne("NoteOn") /\ mNoteIsOn'
        /\ (~midiCall'.hit /\ mLastHitState /\ mNoteIsOn) =>
               IF mConfig.noteOffDelay = 0
                  THEN EmittedOne("NoteOff") /\ ~mNoteIsOn'
                  ELSE /\ EmittedNone
                       /\ mNoteOffScheduledAt' = midiCall'.offset + mConfig.noteOffDelay
                       /\ mNoteIsOn'
      ]_vars

\* C7 (amended): as above when sendNoteOff is enabled; when sendNoteOff is
\* disabled a true->false change with a note sounding emits nothing, records no
\* schedule and the note stops sounding.
C7_HitStateTransitions ==
    [][midiCall'.op = "processHitState" =>
        /\ (midiCall'.hit = mLastHitState) =>
               midiCall'.ret = "nullptr" /\ midiState' = midiState
        /\ (midiCall'.hit /\ ~mLastHitState /\ ~mNoteIsOn) =>
               EmittedOne("NoteOn") /\ mNoteIsOn'
        /\ (~midiCall'.hit /\ mLastHitState /\ mNoteIsOn) =>
               IF ~mConfig.sendNoteOff
                  THEN /\ EmittedNone
                       /\ ~mNoteIsOn'
                       /\ mNoteOffScheduledAt' = mNoteOffScheduledAt
               ELSE IF mConfig.noteOffDelay = 0
                  THEN EmittedOne("NoteOff") /\ ~mNoteIsOn'
                  ELSE /\ EmittedNone
                       /\ mNoteOffScheduledAt' = midiCall'.offset + mConfig.noteOffDelay
                       /\ mNoteIsOn'
      ]_vars

\* C7 witness: an enabled, delayed note-off has just been scheduled by a
\* true->false change after events were emitted.
C7_Witness_Scheduled ==
    /\ midiCall.op = "processHitState" /\ ~midiCall.hit /\ midiCall.ret = "nullptr"
    /\ mConfig.sendNoteOff /\ mConfig.noteOffDelay > 0
    /\ mNoteIsOn /\ ~mLastHitState
    /\ mNoteOffScheduledAt = midiCall.offset + mConfig.noteOffDelay
    /\ mStats.noteOffEvents >= 1

\* C8: with a note-off scheduled at position P, processPendingEvents(c) returns
\* nothing and changes nothing for c < P; the first call with c >= P returns one
\* NoteOff, marks the note not sounding and clears the schedule; with no schedule
\* recorded every call returns nothing.
C8_PendingFiresAtScheduledPosition ==
    [][midiCall'.op = "processPendingEvents" =>
        IF scheduleRecorded
           THEN IF midiCall'.offset < mNoteOffScheduledAt
                   THEN midiCall'.ret = "nullptr" /\ midiState' = midiState
                   ELSE /\ EmittedOne("NoteOff")
                        /\ ~mNoteIsOn'
                        /\ mNoteOffScheduledAt' = -1
           ELSE midiCall'.ret = "nullptr" /\ midiState' = midiState
      ]_vars

\* A step that processed one frame with the post-processor enabled.
FrameProcessed == mProcessedCount' = mProcessedCount + 1

\* The frame was counted in an episode: it started one or continued the one in
\* progress (the running count is mHitFrameCount').
FrameCounted ==
    \/ ~mCurrentHitState /\ mCurrentHitState'
    \/ mCurrentHitState /\ mHitFrameCount' = mHitFrameCount + 1

\* The callback calls made during the step.
CallbacksFired == SubSeq(cbLog', Len(cbLog) + 1, Len(cbLog'))

\* The smoothed confidence of the frame meets the threshold in force before it.
ThresholdMet == applyThreshold(ppCall'.ret)

\* C6: the hit=true callback fires exactly once per episode, at the frame where
\* the running count of consecutive threshold-met frames reaches minHitDuration
\* (and at no other frame), and hasHit() is true after that frame; also for
\* minHitDuration = 1.
C6_HitAnnouncedAtMinDuration ==
    [][FrameProcessed =>
        IF FrameCounted /\ mHitFrameCount' = mPPConfig.minHitDuration
           THEN CallbacksFired = <<TRUE>> /\ mHadHit'
           ELSE \A i \in 1 .. Len(CallbacksFired) : ~CallbacksFired[i]
      ]_vars

\* C9: while an episode has not reached minHitDuration no callback fires, no
\* false positive is counted and hasHit() is false; when the threshold is lost
\* before the count reached minHitDuration the false-positive counter goes up by
\* exactly one, no callback fires and hasHit() stays false.
C9_ShortEpisodeIsFalsePositive ==
    /\ [](mCurrentHitState /\ mHitFrameCount < mPPConfig.minHitDuration => ~mHadHit)
    /\ [][FrameProcessed =>
            /\ (mCurrentHitState' /\ mHitFrameCount' < mPPConfig.minHitDuration) =>
                   /\ cbLog' = cbLog
                   /\ mPPStats'.falsePositives = mPPStats.falsePositives
            /\ (mCurrentHitState /\ mHitFrameCount < mPPConfig.minHitDuration
                                 /\ ~ThresholdMet) =>
                   /\ mPPStats'.falsePositives = mPPStats.falsePositives + 1
                   /\ cbLog' = cbLog
                   /\ ~mHadHit'
                   /\ ~mCurrentHitState'
       ]_vars

\* C9 witness: an episode of two frames ended short of minHitDuration = 3 and was
\* counted as a false positive; no callback has fired.
C9_Witness_ShortEpisode ==
    /\ mPPConfig.minHitDuration = 3
    /\ ~mCurrentHitState /\ mHitFrameCount = 2
    /\ mPPStats.falsePositives = 1
    /\ cbLog = <<>> /\ ~mHadHit

\* C10 (as claimed): while an episode is in progress and the threshold stays
\* met, the hit is forcibly ended at the frame where the frame count exceeds
\* maxHitDuration, and not before.
C10_Original_ForcedEndAfterMaxExceeded ==
    [][FrameProcessed /\ mCurrentHitState /\ ThresholdMet =>
        IF mHitFrameCount + 1 > mPPConfig.maxHitDuration
           THEN /\ CallbacksFired = <<FALSE>>
                /\ ~mHadHit' /\ ~mCurrentHitState'
                /\ mDebounceFrameCount' = DebounceWindow
           ELSE /\ mCurrentHitState'
                /\ \A i \in 1 .. Len(CallbacksFired) : CallbacksFired[i]
      ]_vars

\* C10 (amended): while an episode is in progress and the threshold stays met,
\* the hit is forcibly ended (hit=false callback, hasHit() false, debounce window
\* entered when enabled) at the frame where the frame count reaches
\* maxHitDuration, and not before.
C10_ForcedEndAtMaxDuration ==
    [][FrameProcessed /\ mCurrentHitState /\ ThresholdMet =>
        IF mHitFrameCount + 1 >= mPPConfig.maxHitDuration
           THEN /\ CallbacksFired = <<FALSE>>
                /\ ~mHadHit' /\ ~mCurrentHitState'
                /\ mDebounceFrameCount' = DebounceWindow
           ELSE /\ mCurrentHitState'
                /\ mHitFrameCount' = mHitFrameCount + 1
                /\ mDebounceFrameCount' = mDebounceFrameCount
                /\ \A i \in 1 .. Len(CallbacksFired) : CallbacksFired[i]
      ]_vars

\* C10 witness: an announced hit has just been ended by force at maxHitDuration
\* frames with the threshold still met, and the debounce window was entered.
C10_Witness_ForcedEnd ==
    /\ ~mCurrentHitState /\ mHitFrameCount = mPPConfig.maxHitDuration
    /\ Len(cbLog) >= 2 /\ cbLog[Len(cbLog) - 1] /\ ~cbLog[Len(cbLog)]
    /\ ~mHadHit
    /\ mPPConfig.enableDebounce /\ mDebounceFrameCount = mPPConfig.debounceFrames
    /\ mLastSmoothedConfidence >= mPPConfig.hysteresisHigh

\* A hit=true callback was made during the step.
HitAnnounced == \E i \in 1 .. Len(CallbacksFired) : CallbacksFired[i]

\* The frame falls into an open debounce window.
InDebounceWindow == mPPConfig.enableDebounce /\ mDebounceFrameCount > 0

\* C11: with debounce enabled, a threshold-met frame inside the window opened by
\* the end of a hit counts as a debounced hit and starts no episode; the hit that
\* opened the window (an episode of at least minHitDuration frames) was announced
\* and ended; and no hit=true callback is made for a threshold crossing that
\* began inside the window.
C11_DebounceWindowSuppresses ==
    [][FrameProcessed =>
        /\ (InDebounceWindow /\ ThresholdMet) =>
               /\ mPPStats'.debouncedHits = mPPStats.debouncedHits + 1
               /\ ~mCurrentHitState'
               /\ CallbacksFired = <<>>
               /\ mHitFrameCount >= mPPConfig.minHitDuration =>
                      /\ Len(cbLog) >= 2
                      /\ cbLog[Len(cbLog) - 1] /\ ~cbLog[Len(cbLog)]
        /\ HitAnnounced => crossingBegan' # "inWindow"
      ]_vars

\* The step ended the episode in progress on a frame that was not counted in it:
\* the end by loss of threshold.
EndedByLoss ==
    mCurrentHitState /\ ~mCurrentHitState' /\ mHitFrameCount' = mHitFrameCount

\* C12 (as claimed): with hysteresis enabled an episode starts only on a frame
\* whose smoothed confidence is >= hysteresisHigh, stays in progress on every
\* following frame whose smoothed confidence is >= hysteresisLow, and ends by loss
\* of threshold exactly at a frame whose smoothed confidence is < hysteresisLow.
C12_Original_HysteresisKeepsEpisode ==
    [][FrameProcessed /\ mPPConfig.enableHysteresis =>
        /\ (~mCurrentHitState /\ mCurrentHitState') =>
               ppCall'.ret >= mPPConfig.hysteresisHigh
        /\ (mCurrentHitState /\ ppCall'.ret >= mPPConfig.hysteresisLow) =>
               mCurrentHitState'
        /\ mCurrentHitState => (EndedByLoss <=> ppCall'.ret < mPPConfig.hysteresisLow)
      ]_vars

\* C12 (amended): with hysteresis enabled an episode starts only on a frame whose
\* smoothed confidence is >= hysteresisHigh; every following frame whose smoothed
\* confidence is >= hysteresisLow is counted in the episode, which stays in
\* progress unless the count reaches maxHitDuration; and the episode ends by loss
\* of threshold exactly at the first frame whose smoothed confidence is
\* < hysteresisLow.
C12_HysteresisKeepsEpisode ==
    [][FrameProcessed /\ mPPConfig.enableHysteresis =>
        /\ (~mCurrentHitState /\ mCurrentHitState') =>
               ppCall'.ret >= mPPConfig.hysteresisHigh
        /\ (mCurrentHitState /\ ppCall'.ret >= mPPConfig.hysteresisLow) =>
               /\ mHitFrameCount' = mHitFrameCount + 1
               /\ mCurrentHitState' <=> mHitFrameCount + 1 < mPPConfig.maxHitDuration
        /\ mCurrentHitState => (EndedByLoss <=> ppCall'.ret < mPPConfig.hysteresisLow)
      ]_vars

\* C12 witness: with hysteresis enabled an episode is kept in progress by a frame
\* whose smoothed confidence lies between hysteresisLow and hysteresisHigh.
C12_Witness_KeptBetweenThresholds ==
    /\ mPPConfig.enableHysteresis
    /\ mCurrentHitState /\ mHitFrameCount >= 2
    /\ mLastSmoothedConfidence >= mPPConfig.hysteresisLow
    /\ mLastSmoothedConfidence < mPPConfig.hysteresisHigh

\* The samples of a sequence of frames, in order.
RECURSIVE Flatten(_)
Flatten(frames) == IF frames = <<>> THEN <<>> ELSE Head(frames) \o Flatten(Tail(frames))

\* The inference worker is inside pop_bulk or between pop_bulk and the hand-over.
AiHoldsSamples == tpc[0] \in {"popBulk", "popped"}

\* C13: under every interleaving with a pushing producer, the samples the
\* inference worker removes from the queue are removed in FIFO order and in whole
\* frames of mFrameSize samples, each handed as one frame to AiInference::run; no
\* pop of a bulk pop fails, so no partial frame is obtained and no popped sample
\* is discarded; and when size() is below mFrameSize the worker removes nothing.
C13_WholeFramesPoppedInOrder ==
    /\ [](/\ IsPrefix(popped, pushed)
          /\ cRet # "false"
          /\ ~ENABLED AiPartialFrame
          /\ \A i \in 1 .. Len(handedFrames) : Len(handedFrames[i]) = mFrameSize
          /\ IF AiHoldsSamples
                THEN popped = Flatten(handedFrames) \o tProcessingFrame
                        \o (IF cpc = "idle" /\ cRet = "true" THEN <<cItem>> ELSE <<>>)
                ELSE popped = Flatten(handedFrames))
    /\ [][tpc[0] = "size" /\ tpc'[0] # "size" /\ size < mFrameSize =>
            tpc'[0] = "loop" /\ popped' = popped /\ readIndex_' = readIndex_]_vars

\* C13 witness: the worker has handed three whole frames of two samples, popped
\* while the producer was pushing and the indices wrapped around.
C13_Witness_ThreeFrames ==
    /\ mFrameSize = FrameSize
    /\ Len(handedFrames) = 3
    /\ popped = Flatten(handedFrames)
    /\ Len(pushed) > Size

\* A step in which the worker handed a frame to AiInference::run.
FrameHanded == handedFrames' # handedFrames

C15_SubmitTaskBoundedQueue ==
    /\ [](Len(mTaskQueue) <= 64)
    /\ [][/\ (subPc = "idle" /\ <<subPc, subTask, subRet>>' # <<subPc, subTask, subRet>>) =>
               /\ mTaskQueue' = mTaskQueue
               /\ IF ~mRunning \/ subTask' = "empty"
                     THEN subRet' = "false" /\ subPc' = "idle"
                     ELSE subPc' = "submitLock"
          /\ (subPc = "submitLock" /\ subPc' # "submitLock") =>
               IF Len(mTaskQueue) >= 64
                  THEN subRet' = "false" /\ subPc' = "idle" /\ mTaskQueue' = mTaskQueue
                  ELSE /\ mTaskQueue' = Append(mTaskQueue, subTask)
                       /\ subPc' = "submitNotify"
          /\ (subPc = "submitNotify" /\ subPc' # "submitNotify") =>
               subRet' = "true" /\ subPc' = "idle" /\ mTaskQueue' = mTaskQueue
       ]_vars
    /\ [](subPc = "submitLock" /\ mTaskMutex = NoOwner => ENABLED SubPush)

\* C15 witness: a callable submitted to the running pool was refused because the
\* queue held 64 tasks, and the submitting thread is back from the call.
C15_Witness_RefusedWhenFull ==
    /\ mRunning /\ Len(mTaskQueue) = 64
    /\ subTask = "work" /\ subRet = "false" /\ subPc = "idle"

\* The client's stop() has returned and the pool has not been started since.
StoppedPool == clientPc = "idle" /\ stopResult[Client] = "returned" /\ ~mRunning

\* A worker takes the front task of the queue in this step.
TaskTaken == \E w \in Threads : wTask[w] = "none" /\ wTask'[w] # "none"

\* C14: after stop() has returned the task queue is empty, also when submitTask
\* runs concurrently with stop(); once stop() has raised the stop flag no worker
\* starts a queued task; and a later start() finds no task left in the queue, so
\* none is executed after it.
C14_StopDiscardsQueuedTasks ==
    /\ [](StoppedPool => mTaskQueue = <<>>)
    /\ [][(clientPc = "stop" /\ mShouldStop) => ~TaskTaken]_vars
    /\ [][restarts' = restarts + 1 => mTaskQueue = <<>>]_vars

\* The producer is between calls of push.
ProducerIdle == ppc = "idle"

\* C18: with one producer and one consumer, if the producer eventually stops
\* pushing and the consumer keeps calling pop, the queue eventually becomes empty;
\* and whenever the queue is empty the successful pops are as many as the
\* successful pushes.
C18_DrainsAfterProducerStops ==
    /\ [](empty => Len(popped) = Len(pushed))
    /\ <>[]ProducerIdle => <>[](empty /\ Len(popped) = Len(pushed))

\* C18 witness: the producer pushed all it had and stopped, and the consumer,
\* calling pop again, found the queue empty with everything popped.
C18_Witness_Drained ==
    /\ ProducerIdle /\ Len(pushed) = MaxPush /\ pRet = "true"
    /\ cpc = "idle" /\ cRet = "false"
    /\ empty /\ Len(popped) = MaxPush

\* What one call of processMono on the whole input consumed so far produces.
OneShotOutput == processMono(FreshDecimator, Chunk(0, decConsumed)).out

\* C17: an input split into consecutive chunks of arbitrary lengths produces the
\* output samples of one call on the whole input: as many of them, emitted after
\* the same input positions, with the same sub-filter phase and history window;
\* one output per DecimationFactor input samples consumed since construction or
\* reset.
C17_ChunkedEqualsOneShot ==
    /\ decOutput = OneShotOutput
    /\ Len(decOutput) = decConsumed \div DecimationFactor

\* The events of a log by type, note and velocity.
Notes(log) == [i \in 1 .. Len(log) |-> <<log[i].type, log[i].note, log[i].velocity>>]

\* The whole sequence was fed and driven, and the last call polled the handler
\* at a position past the one a note-off was scheduled for.
PolledPastSchedule ==
    /\ feed = <<>> /\ hitDriven
    /\ midiCall.op = "processPendingEvents"
    /\ midiCall.offset >= mConfig.noteOffDelay

\* C19: the sequence simple_hit produces exactly one hit=true callback followed
\* by exactly one hit=false callback, and the default MidiEventHandler driven
\* with the hit states and polled past the scheduled position returns exactly one
\* NoteOn (note 45, velocity 127) followed by exactly one NoteOff (note 45).
C19_SimpleHitOneNotePair ==
    feedName = "simple_hit" =>
        /\ IsPrefix(cbLog, <<TRUE, FALSE>>)
        /\ feed = <<>> => cbLog = <<TRUE, FALSE>>
        /\ IsPrefix(Notes(midiLog), <<<<"NoteOn", 45, 127>>, <<"NoteOff", 45, 0>>>>)
        /\ PolledPastSchedule =>
               Notes(midiLog) = <<<<"NoteOn", 45, 127>>, <<"NoteOff", 45, 0>>>>

\* C19 witness: simple_hit was fed to the end and the handler polled past the
\* scheduled position; both callbacks and both events have been seen.
C19_Witness_PairComplete ==
    /\ feedName = "simple_hit" /\ PolledPastSchedule
    /\ Len(cbLog) = 2 /\ Len(midiLog) = 2
    /\ mStats.noteOnEvents = 1 /\ mStats.noteOffEvents = 1

\* C20: the single-frame spike sequence never makes hasHit() true and leaves the
\* false-positive counter greater than zero.
C20_SpikeCountedAsFalsePositive ==
    feedName = "false_positive" =>
        /\ ~mHadHit
        /\ feed = <<>> => mPPStats.falsePositives > 0

\* The handler is idle with no schedule.
HandlerIdle == ~mLastHitState /\ ~mNoteIsOn /\ mNoteOffScheduledAt = -1

\* The step is a call of the handler that returned.
MidiCalled == midiCall' # midiCall \/ mStats' # mStats

\* C21: after reset(), whatever state the handler was in, the handler is idle with
\* no pending schedule; from there processPendingEvents returns nothing for every
\* sample position and leaves the handler idle, and the next
\* processHitState(true, ...) emits a NoteOn.
C21_ResetLeavesIdle ==
    /\ [](midiCall.op = "reset" =>
             HandlerIdle /\ \A c \in Offsets : ~Due(c))
    /\ [][HandlerIdle /\ MidiCalled /\ midiCall'.op = "processPendingEvents" =>
             midiCall'.ret = "nullptr" /\ HandlerIdle']_vars
    /\ [][HandlerIdle /\ MidiCalled /\ midiCall'.op = "processHitState" /\ midiCall'.hit =>
             /\ midiCall'.ret = "event"
             /\ mCurrentEvent'.type = "NoteOn"
             /\ mNoteIsOn']_vars

\* C21 witness: a reset() found a note-off pending, and a later
\* processHitState(true, ...) emitted the second NoteOn with no NoteOff ever
\* emitted.
C21_Witness_NoteOnAfterPendingReset ==
    /\ resetFound = "pending" /\ mConfig.sendNoteOff
    /\ midiCall.op = "processHitState" /\ midiCall.hit /\ midiCall.ret = "event"
    /\ mCurrentEvent.type = "NoteOn"
    /\ mStats.noteOnEvents = 2 /\ mStats.noteOffEvents = 0

\* C27: reset() clears the statistics (noteOnEvents, noteOffEvents and totalEvents
\* are 0 afterwards) and leaves the configuration unchanged.
C27_ResetClearsStatistics ==
    /\ [](midiCall.op = "reset" =>
             /\ mStats.noteOnEvents = 0
             /\ mStats.noteOffEvents = 0
             /\ mStats.totalEvents = 0)
    /\ [][midiCall'.op = "reset" => mConfig' = mConfig]_vars

\* C30: after construction or updateConfig with any configuration the stored note
\* is <= 127, velocity <= 127 and channel <= 15: an out-of-range field holds its
\* default (45, 127, 0), an in-range field the value given; updateConfig can
\* always be called and returns; an event returned afterwards carries the stored
\* note and channel.
C30_StoredMidiConfigValid ==
    /\ mConfig.hitNote <= 127 /\ mConfig.hitVelocity <= 127 /\ mConfig.channel <= 15
    /\ mConfig.hitNote = IF configGiven.hitNote <= 127 THEN configGiven.hitNote ELSE 45
    /\ mConfig.hitVelocity =
           IF configGiven.hitVelocity <= 127 THEN configGiven.hitVelocity ELSE 127
    /\ mConfig.channel = IF configGiven.channel <= 15 THEN configGiven.channel ELSE 0
    /\ ENABLED MidiConfigUpdated
    /\ midiCall.ret = "event" =>
           /\ mCurrentEvent.note = mConfig.hitNote
           /\ mCurrentEvent.channel = mConfig.channel

\* C30 witness: after a NoteOff was emitted, updateConfig was handed a
\* configuration without note-offs whose note and velocity are out of range and
\* whose channel is in range, and the handler then returned a NoteOn with the
\* default note and velocity on the channel given.
C30_Witness_EventAfterCorrectedUpdate ==
    /\ mStats.noteOffEvents > 0 /\ ~configGiven.sendNoteOff
    /\ configGiven.hitNote = 128 /\ configGiven.hitVelocity = 128
    /\ configGiven.channel = 15
    /\ mConfig.hitNote = 45 /\ mConfig.hitVelocity = 127 /\ mConfig.channel = 15
    /\ midiCall.ret = "event" /\ mCurrentEvent.type = "NoteOn"
    /\ mCurrentEvent.note = 45 /\ mCurrentEvent.velocity = 127
    /\ mCurrentEvent.channel = 15

\* Events of one type in a log.
CountOf(log, type) == Cardinality({i \in 1 .. Len(log) : log[i].type = type})

\* A NoteOn was sent to the host and no NoteOff after it.
NoteOpen == CountOf(midiLog, "NoteOn") > CountOf(midiLog, "NoteOff")

\* process was called with hasHit() false.
ProcessedWithoutHit == procPc = "pending" /\ ~midiCall.hit

\* C22: every NoteOn sent to the host is eventually followed by a matching NoteOff
\* sent to the host, also when the plugin is deactivated while the note is
\* sounding or its note-off is pending: after deactivation no note is left open,
\* and while the host goes on calling process with the hit over, every open note
\* is closed.
C22_NoStuckNote ==
    /\ [](~active => ~NoteOpen)
    /\ []<>ProcessedWithoutHit => [](NoteOpen => <>~NoteOpen)

\* The filter history holds no sample: the state the constructor leaves.
HistoryEmpty == mHistoryIndex = 0 /\ ~mHistoryFilled

\* C28: after any updateConfig call the median history is empty (index 0, not
\* filled), whether or not the median filter size changed.
C28_UpdateConfigEmptiesHistory ==
    [](ppCall.op = "updateConfig" => HistoryEmpty)

\* The statistics a newly constructed processor reports.
StatisticsCleared ==
    /\ mPPStats.totalFramesProcessed = 0 /\ mPPStats.totalHits = 0
    /\ mPPStats.falsePositives = 0 /\ mPPStats.debouncedHits = 0
    /\ mPPStats.peakConfidence = 0 /\ mPPStats.currentHitDuration = 0
    /\ ~mPPStats.isCurrentlyHit
    /\ mConfidenceSum = 0 /\ mSmoothedConfidenceSum = 0 /\ mProcessedCount = 0

\* C23: after reset() the filter history, the hit state and the statistics are
\* those of a newly constructed processor (hasHit() false, smoothed confidence 0,
\* counters 0, debounce counter 0), and what is processed afterwards behaves as
\* on a new processor with the same configuration: the first frame returns its
\* clamped confidence and is counted, and, with no updateConfig or setEnabled
\* since the reset, a hit=false callback delivered before any hit=true callback
\* carries peak and smoothed confidence 0.
C23_ResetEqualsFresh ==
    /\ [](ppCall.op = "reset" =>
             /\ HistoryEmpty
             /\ \A i \in DOMAIN mConfidenceHistory : mConfidenceHistory[i] = 0
             /\ ~mCurrentHitState /\ mHitFrameCount = 0 /\ mPeakConfidenceInHit = 0
             /\ ~mHadHit /\ mLastSmoothedConfidence = 0 /\ mDebounceFrameCount = 0
             /\ StatisticsCleared)
    /\ [][ppCall.op = "reset" /\ ppCall'.op = "processConfidence" =>
             /\ ppCall'.ret = clamp01(ppCall'.confidence)
             /\ mPPStats'.totalFramesProcessed = 1]_vars
    /\ [][/\ sinceReset = "clean"
          /\ ppCall'.op = "processConfidence"
          /\ Len(cbLog') > Len(cbLog)
          /\ mPPStats'.totalHits = 0
          => /\ mLastHitEvent'.peakConfidence = 0
             /\ mLastHitEvent'.smoothedConfidence = 0]_vars

\* The constraints on a configuration.
FilterSizeValid(config) == config.medianFilterSize >= 3 /\ config.medianFilterSize % 2 = 1
ThresholdValid(config) == config.threshold \in 0 .. 100
HysteresisValid(config) ==
    /\ config.hysteresisLow \in 0 .. 100
    /\ config.hysteresisHigh \in 0 .. 100
    /\ config.enableHysteresis => config.hysteresisLow <= config.hysteresisHigh
DurationsValid(config) ==
    config.minHitDuration >= 1 /\ config.maxHitDuration > config.minHitDuration

\* C29: after construction or updateConfig with any configuration the stored
\* configuration has medianFilterSize odd and >= 3, threshold and both hysteresis
\* thresholds in [0,1], hysteresisLow <= hysteresisHigh when hysteresis is
\* enabled, minHitDuration >= 1, maxHitDuration > minHitDuration and
\* debounceFrames >= 0; the values given that satisfy their constraints are the
\* values stored.
C29_StoredConfigValid ==
    [](ppCall.op \in {"PostProcessor", "updateConfig"} =>
          LET given == ppCall.config
          IN  /\ FilterSizeValid(mPPConfig) /\ ThresholdValid(mPPConfig)
              /\ HysteresisValid(mPPConfig) /\ DurationsValid(mPPConfig)
              /\ mPPConfig.debounceFrames >= 0
              /\ FilterSizeValid(given) =>
                     mPPConfig.medianFilterSize = given.medianFilterSize
              /\ ThresholdValid(given) => mPPConfig.threshold = given.threshold
              /\ HysteresisValid(given) =>
                     /\ mPPConfig.hysteresisLow = given.hysteresisLow
                     /\ mPPConfig.hysteresisHigh = given.hysteresisHigh
              /\ given.minHitDuration >= 1 =>
                     mPPConfig.minHitDuration = given.minHitDuration
              /\ DurationsValid(given) =>
                     mPPConfig.maxHitDuration = given.maxHitDuration
              /\ given.debounceFrames >= 0 =>
                     mPPConfig.debounceFrames = given.debounceFrames)

\* C26: after construction and before start(), getThreadCount() returns the
\* number of worker threads the pool is configured with: greater than 0, at most
\* the hardware thread count, and the requested count when that is within bounds.
C26_ThreadCountBeforeStart ==
    /\ \A numThreads \in 1 .. NumThreads : clampThreads(numThreads) = numThreads
    /\ [](~started /\ ~mRunning =>
             /\ getThreadCount > 0
             /\ getThreadCount <= NumThreads + 1
             /\ getThreadCount = mNumThreads)

\* stop() has been called on the running pool.
StopBegun == mShouldStop \/ \E c \in Callers : stopPc[c] # "idle"

\* Tasks taken from the queue whose execution has not ended.
InExecution == Cardinality({w \in Threads : wTask[w] # "none"})

\* C25: every task accepted by submitTask on a running pool is executed, exactly
\* once, unless stop() is called first, for every thread count the constructor
\* allows: an accepted task is in the queue, in execution by one worker or
\* executed, never more often executed than accepted, and the n-th accepted task
\* is followed by the n-th execution or by a call of stop().
C25_AcceptedTaskExecutedOnce ==
    /\ [](executed <= submitted)
    /\ [](~StopBegun => executed + InExecution + Len(mTaskQueue) = submitted)
    /\ \A n \in 1 .. MaxTasks : [](submitted >= n => <>(executed >= n \/ StopBegun))

\* The step is a call of start() or stop() by the client.
PoolCalled == poolCall' # poolCall

\* The collaborators given to start() are both non-null.
CollaboratorsGiven ==
    poolCall'.given.ringBuffer # "nullptr" /\ poolCall'.given.aiInference # "nullptr"

\* C24: start() with a null collaborator or on a running pool, and stop() on a
\* pool that is not running, change nothing: the worker threads and what they
\* do, the task queue, the collaborators in use and isRunning() are as before; a
\* start() after a completed stop() leaves the pool running with the
\* collaborators given and one new thread at the top of its thread function for
\* every thread configured, all threads of before having finished.
C24_StartStopNoOps ==
    /\ [][/\ PoolCalled
          /\ \/ poolCall'.op = "start" /\ (poolCall'.wasRunning \/ ~CollaboratorsGiven)
             \/ poolCall'.op = "stop" /\ ~poolCall'.wasRunning
          => UNCHANGED <<mWorkerThreads, tpc, joinable, wTask, mTaskQueue,
                         mCollaborators, mRunning, mShouldStop>>]_vars
    /\ [][/\ PoolCalled /\ poolCall'.op = "start" /\ CollaboratorsGiven
          /\ ~mRunning /\ stopResult[Client] = "returned"
          => /\ mRunning' /\ ~mShouldStop'
             /\ mCollaborators' = poolCall'.given
             /\ getThreadCount' = mNumThreads
             /\ \A t \in 0 .. mNumThreads - 1 :
                   tpc[t] = "done" /\ tpc'[t] = "loop" /\ joinable'[t]]_vars

\* C24 witness: start() with other collaborators was called on the pool running
\* again after a stop(), with a task in the queue, and changed nothing.
C24_Witness_StartOnRestartedPool ==
    /\ poolCall.op = "start" /\ poolCall.wasRunning
    /\ poolCall.given.ringBuffer = "other"
    /\ restarts = 1 /\ mRunning /\ stopResult[Client] = "returned"
    /\ mCollaborators.ringBuffer = "ringBuffer"
    /\ Len(mTaskQueue) > 0

\* The median of a non-empty sequence: the middle element in sorted order, the
\* mean of the two middle elements for an even length.
Median(seq) ==
    LET sorted == SortSeq(seq, LAMBDA a, b : a < b)
        n == Len(seq)
    IN  IF n % 2 = 1 THEN sorted[(n + 1) \div 2]
        ELSE (sorted[n \div 2] + sorted[n \div 2 + 1]) \div 2

\* What the filter returns for a window begun count samples ago: the latest
\* sample while the window holds fewer than 3, else the median of the window.
WindowOutput(samples, count) ==
    IF count < 3 THEN samples[Len(samples)]
    ELSE Median(LastOf(samples, Min(count, mPPConfig.medianFilterSize)))

\* The step is a processConfidence call on the enabled processor.
FrameFiltered == mPPStats'.totalFramesProcessed = mPPStats.totalFramesProcessed + 1

BulkReturned(call) == call.pc = "idle" /\ call.ret >= 0
BulkRefused(call) == call.items = "null" \/ call.count = 0

\* What a returned bulk call did to the two streams: push_bulk appended its
\* first ret items (the next values of the stream) and pop_bulk took the ret
\* oldest elements, in the order they were pushed.
PushBulkAppended ==
    /\ Len(pushed) = pBulk.pushedBefore + pBulk.ret
    /\ \A i \in 1 .. pBulk.ret : pushed[pBulk.pushedBefore + i] = pBulk.pushedBefore + i
PopBulkRemoved ==
    /\ Len(popped) = cBulk.poppedBefore + cBulk.ret
    /\ \A i \in 1 .. cBulk.ret :
           /\ cBulk.poppedBefore + i <= Len(pushed)
           /\ popped[cBulk.poppedBefore + i] = pushed[cBulk.poppedBefore + i]

\* A refused call returns 0 and the caller has changed nothing since.
BulkRefusedChangesNothing ==
    /\ BulkReturned(pBulk) /\ BulkRefused(pBulk)
           => pBulk.ret = 0 /\ Len(pushed) = pBulk.pushedBefore /\ ppc = "idle"
    /\ BulkReturned(cBulk) /\ BulkRefused(cBulk)
           => cBulk.ret = 0 /\ Len(popped) = cBulk.poppedBefore /\ cpc = "idle"

\* C32 as stated: push_bulk appends the first k = min(count, free slots) items
\* in order and returns k, pop_bulk removes the k = min(count, stored elements)
\* oldest elements in order and returns k, free slots and stored elements being
\* those the call finds; both return 0 and change nothing for a null pointer or
\* a zero count.
C32_BulkCountAtCall ==
    /\ BulkRefusedChangesNothing
    /\ BulkReturned(pBulk) /\ ~BulkRefused(pBulk)
           => /\ pBulk.ret = Min(pBulk.count, capacity - pBulk.found)
              /\ PushBulkAppended
    /\ BulkReturned(cBulk) /\ ~BulkRefused(cBulk)
           => /\ cBulk.ret = Min(cBulk.count, cBulk.found)
              /\ PopBulkRemoved

\* The count is bounded by what the call finds and what the other thread frees
\* or stores while the call runs.
BulkCountBounds ==
    /\ BulkReturned(pBulk) /\ ~BulkRefused(pBulk)
           => /\ pBulk.ret >= Min(pBulk.count, capacity - pBulk.found)
              /\ pBulk.ret <= pBulk.count
              /\ PushBulkAppended
    /\ BulkReturned(cBulk) /\ ~BulkRefused(cBulk)
           => /\ cBulk.ret >= Min(cBulk.count, cBulk.found)
              /\ cBulk.ret <= cBulk.count
              /\ PopBulkRemoved
BulkCountAtReturn ==
    /\ pBulk.pc = "loop" /\ pBulk'.pc = "idle"
           => pBulk'.ret <= Min(pBulk.count, (capacity - pBulk.found)
                                              + (Len(popped') - pBulk.poppedBefore))
    /\ cBulk.pc = "loop" /\ cBulk'.pc = "idle"
           => cBulk'.ret <= Min(cBulk.count, cBulk.found
                                              + (Len(pushed') - cBulk.pushedBefore))

\* C32: push_bulk appends the first k items in order and returns k, where k is
\* at least min(count, free slots found by the call) and at most min(count, free
\* slots found plus the elements the consumer popped during the call); pop_bulk
\* removes the k oldest elements in order and returns k, where k is at least
\* min(count, stored elements found) and at most min(count, stored elements found
\* plus the elements the producer pushed during the call); both return 0 and
\* change nothing for a null pointer or a zero count.
C32_BulkCountBounded ==
    /\ [](BulkRefusedChangesNothing /\ BulkCountBounds)
    /\ [][BulkCountAtReturn]_vars

\* Both cases have happened: a push_bulk that overflowed what it found free and
\* still pushed more than that, and a pop_bulk that took more than was stored
\* when it began.
C32_Witness_BulkCountBounded ==
    /\ BulkReturned(pBulk) /\ pBulk.count = MaxBulk
    /\ pBulk.ret > capacity - pBulk.found /\ pBulk.found > 0
    /\ BulkReturned(cBulk) /\ cBulk.ret > cBulk.found /\ cBulk.ret > 0

\* processConfidence is called on a disabled processor.
DisabledFrameProcessed == ~mEnabled /\ ppCall'.op = "processConfidence"

\* C33: while the PostProcessor is disabled, processConfidence returns its input
\* value unchanged and leaves the filter history, hit state, debounce counter
\* and every statistic unchanged, fires no callback, and hasHit() keeps the
\* value it had.
C33_DisabledPassThrough ==
    [][DisabledFrameProcessed =>
           /\ ppCall'.ret = ppCall'.confidence
           /\ UNCHANGED <<mConfidenceHistory, mHistoryIndex, mHistoryFilled>>
           /\ UNCHANGED <<mCurrentHitState, mHitFrameCount, mPeakConfidenceInHit,
                          mLastHitEvent, mDebounceFrameCount>>
           /\ UNCHANGED <<mPPStats, mConfidenceSum, mSmoothedConfidenceSum,
                          mProcessedCount, mLastSmoothedConfidence>>
           /\ cbLog' = cbLog
           /\ mHadHit' = mHadHit]_vars

\* A processor disabled during a hit was given a confidence above the valid
\* range: it returned it as it was and the hit is still in progress.
C33_Witness_DisabledPassThrough ==
    /\ ~mEnabled /\ ppCall.op = "processConfidence"
    /\ ppCall.confidence > 100 /\ ppCall.ret = ppCall.confidence
    /\ mCurrentHitState /\ mHadHit
    /\ mPPStats.totalFramesProcessed > 0

\* A sample pushed before the last deactivation is handed to the worker.
StaleSamplePopped == popped' # popped /\ cItem <= pushedAtDeactivation

\* mDecimatedBuffer is cleared by this step.
QueueCleared ==
    /\ readIndex_' = 0 /\ writeIndex_' = 0
    /\ readIndex_ # 0 \/ writeIndex_ # 0

\* C34: the pipeline owner clears the bounded queue on activate and on
\* deactivate: after setActive(false) followed by setActive(true) the queue is
\* empty, so the inference worker never receives samples that were pushed before
\* the deactivation, and the queue is only cleared while no producer or consumer
\* is active.
C34_QueueClearedOnActivation ==
    [][/\ active # active' => empty'
       /\ ~StaleSamplePopped
       /\ QueueCleared => ~active /\ ppc = "idle" /\ cpc = "idle"]_vars

\* The slots that hold an element pushed and not yet popped.
OccupiedSlots == {MaskSize(readIndex_ + k) : k \in 0 .. size - 1}

\* The producer is at buffer_[currentWrite] = item, the consumer at
\* item = buffer_[currentRead].
ProducerWrites == ppc = "store"
ConsumerReads == cpc = "load"

\* C35: in every reachable state of a RingBuffer used by one producer and one
\* consumer, the producer never writes a slot that holds an element not yet
\* popped, the consumer never reads a slot that has not been written since it
\* was last popped, a slot is never written and read at the same time, and the
\* occupied count (writeIndex - readIndex) mod N stays within 0..N-1.
C35_SlotsNeverShared ==
    /\ ProducerWrites => pCurrentWrite \notin OccupiedSlots
    /\ ConsumerReads =>
           /\ cCurrentRead \in OccupiedSlots
           /\ Len(popped) < Len(pushed)
           /\ buffer_[cCurrentRead] = pushed[Len(popped) + 1]
    /\ ~(ProducerWrites /\ ConsumerReads /\ pCurrentWrite = cCurrentRead)
    /\ size \in 0 .. Size - 1
    /\ size = Len(pushed) - Len(popped)

\* The indices have wrapped, the producer writes one slot while the consumer
\* reads another, and every other slot but the reserved one is occupied.
C35_Witness_WriteBesideRead ==
    /\ ProducerWrites /\ ConsumerReads
    /\ Len(pushed) >= Size
    /\ size = capacity - 1

\* C36: over any sequence of processConfidence and reset calls on a
\* PostProcessor with a fixed validated configuration, the hit-state callbacks
\* strictly alternate hit=true, hit=false, hit=true, ... beginning with
\* hit=true: a hit=false callback never fires unless a hit=true callback fired
\* before it and has not yet been matched, and two hit=true callbacks never fire
\* without a hit=false between them.
C36_CallbacksAlternate ==
    \A i \in 1 .. Len(cbLog) : cbLog[i] = (i % 2 = 1)

\* An episode is in progress.
EpisodeInProgress == mCurrentHitState

\* C37: in every state reachable by processConfidence calls with a fixed
\* validated configuration, hasHit() true implies that an episode is in progress
\* whose frame count is >= minHitDuration and <= maxHitDuration; the debounce
\* counter is within 0..debounceFrames and is 0 whenever an episode is in
\* progress.
C37_HitWithinEpisode ==
    /\ mHadHit =>
           /\ EpisodeInProgress
           /\ mHitFrameCount >= mPPConfig.minHitDuration
           /\ mHitFrameCount <= mPPConfig.maxHitDuration
    /\ mDebounceFrameCount \in 0 .. mPPConfig.debounceFrames
    /\ EpisodeInProgress => mDebounceFrameCount = 0

\* A second hit is announced after the debounce window of the first was
\* counted down.
C37_Witness_SecondHitAfterDebounce ==
    /\ mHadHit /\ EpisodeInProgress
    /\ mPPConfig.enableDebounce /\ mPPStats.totalHits = 2
    /\ mPPStats.debouncedHits > 0
    /\ mHitFrameCount >= mPPConfig.minHitDuration

\* C38: with sendNoteOff enabled, over any sequence of processHitState,
\* processPendingEvents and updateConfig calls (no reset), the events emitted
\* strictly alternate NoteOn, NoteOff, NoteOn, ... starting with NoteOn, so
\* noteOnEvents - noteOffEvents is always 0 or 1 and totalEvents = noteOnEvents
\* + noteOffEvents.
C38_NotesAlternate ==
    /\ mStats.noteOnEvents - mStats.noteOffEvents \in {0, 1}
    /\ mStats.totalEvents = mStats.noteOnEvents + mStats.noteOffEvents

\* processHitState ends a hit while a note is sounding, with a delayed note-off
\* configured.
HitEndsWithDelay ==
    /\ midiCall'.op = "processHitState" /\ ~midiCall'.hit
    /\ mLastHitState /\ mNoteIsOn
    /\ mConfig.sendNoteOff /\ mConfig.noteOffDelay > 0

\* C39: whenever a hit ends while a note is sounding and noteOffDelay > 0, a
\* note-off schedule is pending afterwards and a NoteOff is emitted by the first
\* processPendingEvents call whose position is >= sampleOffset + noteOffDelay;
\* this holds for every sampleOffset, including negative sampleOffset values for
\* which sampleOffset + noteOffDelay is negative.
C39_DelayedNoteOffEmitted ==
    [][/\ HitEndsWithDelay =>
              /\ mNoteOffScheduledAt' = Add32(midiCall'.offset, mConfig.noteOffDelay)
              /\ HandlerState' = "pending"
       /\ (/\ midiCall'.op = "processPendingEvents"
           /\ scheduleRecorded
           /\ midiCall'.offset >= mNoteOffScheduledAt) =>
              EmittedOne("NoteOff") /\ ~mNoteIsOn'
      ]_vars

\* The history index the output after the given number of samples was computed
\* at: the write index then.
WriteIndexAfter(consumed) == consumed % FilterLength

\* C40: in every reachable decimator state the history write index is within
\* 0..L-1, every history index read by the convolution is within 0..L-1, and
\* the sub-filter selected for an output is (M-1) - (writeIndex mod M), which
\* lies within 0..M-1; because L is a multiple of M, whenever every call's input
\* length is a multiple of M the selected sub-filter is M-1 for every output.
C40_IndicesInRange ==
    /\ bufferIndex_ \in 0 .. FilterLength - 1
    /\ \A i \in 0 .. kPhaseLength - 1 :
           /\ TapOffset(bufferIndex_, i) >= 0
           /\ bufferIdx(bufferIndex_, i) \in 0 .. FilterLength - 1
    /\ \A k \in 1 .. Len(decOutput) :
           /\ decOutput[k].sample.phase =
                  (DecimationFactor - 1)
                      - (WriteIndexAfter(decOutput[k].after) % DecimationFactor)
           /\ decOutput[k].sample.phase \in 0 .. DecimationFactor - 1
    /\ FilterLength % DecimationFactor = 0
    /\ decCall.aligned =>
           \A k \in 1 .. Len(decOutput) :
               decOutput[k].sample.phase = DecimationFactor - 1

\* Calls of whole decimation cycles have filled the history buffer and wrapped
\* it, and an output was computed after the wrap.
C40_Witness_WrappedAligned ==
    /\ decCall.aligned /\ decCall.n = DecimationFactor
    /\ decConsumed > FilterLength
    /\ bufferIndex_ = decConsumed - FilterLength
    /\ Len(decOutput) > kPhaseLength
    /\ decOutput[Len(decOutput)].after = decConsumed

====
